---- MODULE Spec2Model ----
(***************************************************************************)
(* The stashy crawl fleet: the shared url_queue table, the persistence     *)
(* calls of stashy/db.py and the worker control loop of stashy/worker.py.  *)
(*                                                                         *)
(* The two server-side SQL functions the Python code calls                 *)
(* (claim_pending_urls, upsert_discovered_url) and the column defaults of  *)
(* url_queue live in the database schema; they are modelled from the       *)
(* design document, section 4.1, and are marked as such below.             *)
(*                                                                         *)
(* Columns that no operation ever reads (processed_at, updated_at, error)  *)
(* are left out of the row records; of the source column the model keeps   *)
(* "seed" or "frontier", of the latency list the length.                   *)
(***************************************************************************)
EXTENDS Integers, Sequences, FiniteSets, TLC

\* ------------------------------------------------------------------ bounds

\* Largest priority a seed or a candidate may carry (priorities are 0..MaxPriority).
MaxPriority == 1
\* FRONTIER_MAX_LINKS of the workers.
FrontierMaxLinks == 1
\* FRONTIER_MAX_DEPTH of the workers.
FrontierMaxDepth == 1
\* METRICS_FLUSH_EVERY of the workers.
MetricsFlushEvery == 2

\* ------------------------------------------------------- program constants

\* A score is a fraction of ScoreOne, the common denominator of every value
\* the signal and candidate formulas produce on the inputs of the model
\* (7 * 31 * 9 from the keyword counts, 10^4 from the two-digit weights). The
\* arithmetic below is exact where the code rounds to the nearest double.
ScoreOne == 19530000

\* The blended score, and with it the geo_score column of url_queue, is a
\* fraction of BlendOne: score * 0.72 +
\* page_geo_score * 0.28 = (18 * score + 7 * page_geo_score) / 25.
BlendOne == 25 * ScoreOne

\* url_queue.max_retries column default.
DefaultMaxRetries == 3

\* WORKER_ID of the worker processes.
Workers == {"w1", "w2"}
\* The URLs of the model's web.
Urls == {"a", "b"}
\* CLAIM_BATCH_SIZE of each worker process.
get_batch_size(w) == IF w = "w1" THEN 1 ELSE 2
Priorities == 0..MaxPriority
\* SQL NULL of a nullable column: the column holds {} or a singleton.
NULL == {}

VARIABLES
    url_queue,    \* the url_queue table: a sequence of rows, a row's id is its index
    raw_pages,    \* url_ids that have a raw_pages row
    extractions,  \* url_ids that have an extractions row
    lease_over,   \* ids of the rows whose claimed_at is older than the lease
    RUN,          \* worker.RUN of each worker process
    pool,         \* db._pool of each worker process is open
    pc,           \* where each worker's run_worker coroutine stands
    rows,         \* the rows of the claimed batch not yet finished, current row first
    fdone,        \* URLs _enqueue_frontier has upserted for the current row
    frontier_count, \* process_one's frontier_count: what _enqueue_frontier returned, 0 after an error
    counters,     \* WorkerCounters of each worker
    latencies_ms, \* length of WorkerRuntime.latencies_ms of each worker
    samples,      \* worker_metrics rows written by each worker, as processed counts
    cu_url,       \* canonicalize_url: the string given to the first call
    cu_out,       \* canonicalize_url: the results of the calls made so far, each call
                  \* given the result of the one before
    ef_args,      \* the frontier step of process_one for one page: parent URL,
                  \* payload, markup anchors, depth and the configured limits
    ef_pc,        \* where that step is: signals, call, loop, returned, raised
    geo_signals,  \* the GeoSignals compute_geo_signals returned
    candidates,   \* the list frontier_candidates returned to _enqueue_frontier
    cand_i,       \* the position of the loop of _enqueue_frontier in that list
    upserted,     \* the upsert_discovered_url calls that loop has made, in order
    db_call,      \* the last enqueue_url or upsert_discovered_url call on the queue:
                  \* its arguments and what it returned
    prio,         \* the last two evaluations of the priority of a candidate
    holding,      \* history: rows a worker's claim returned and no mark_* touched since
    fail_calls    \* history: number of mark_url_failed updates applied to each row

vars == <<url_queue, raw_pages, extractions, lease_over, RUN, pool, pc, rows, fdone,
          frontier_count, counters,
          latencies_ms, samples, holding, fail_calls,
          cu_url, cu_out, ef_args, ef_pc, geo_signals, candidates, cand_i, upserted,
          db_call, prio>>

\* The variables of the crawl fleet, and those of the calls of the pure
\* functions of stashy/frontier.py that are followed on their own.
fleet == <<url_queue, raw_pages, extractions, lease_over, RUN, pool, pc, rows, fdone,
           frontier_count, counters, latencies_ms, samples, holding, fail_calls>>
canon == <<cu_url, cu_out>>
front == <<ef_args, ef_pc, geo_signals, candidates, cand_i, upserted>>
calls == <<db_call, prio>>
pure == <<canon, front, calls>>

\* The tables other than url_queue, and the history variables.
pages == <<raw_pages, extractions>>
hist == <<holding, fail_calls>>

Ids == 1..Len(url_queue)

\* --------------------------------------------------------------- db.py

\* INSERT INTO url_queue: the columns the statement leaves to their defaults.
NewRow(url, priority, geo_score, source, depth, parent) ==
    [url |-> url, status |-> "pending", priority |-> priority, geo_score |-> geo_score,
     source |-> source, depth |-> depth, parent_url_id |-> parent, retries |-> 0, max_retries |-> DefaultMaxRetries,
     claimed_by |-> NULL, claimed_at |-> NULL]

IdOfUrl(q, url) == CHOOSE i \in 1..Len(q) : q[i].url = url
HasUrl(q, url) == \E i \in 1..Len(q) : q[i].url = url

Max(a, b) == IF a >= b THEN a ELSE b
Min(a, b) == IF a <= b THEN a ELSE b

\* UPDATE url_queue SET status = 'done', claimed_at = NULL, claimed_by = NULL WHERE id = $1
mark_url_done(q, url_id) ==
    [q EXCEPT ![url_id].status = "done",
              ![url_id].claimed_at = NULL,
              ![url_id].claimed_by = NULL]

mark_url_failed_keeps_claim(q, url_id) ==
    [q EXCEPT ![url_id].status =
                  IF q[url_id].retries + 1 >= q[url_id].max_retries
                  THEN "failed" ELSE "pending",
              ![url_id].retries = q[url_id].retries + 1]

mark_url_failed_always_pending(q, url_id) ==
    [q EXCEPT ![url_id].status = "pending",
              ![url_id].retries = q[url_id].retries + 1,
              ![url_id].claimed_at = NULL,
              ![url_id].claimed_by = NULL]

mark_url_failed_off_by_one(q, url_id) ==
    [q EXCEPT ![url_id].status =
                  IF q[url_id].retries >= q[url_id].max_retries
                  THEN "failed" ELSE "pending",
              ![url_id].retries = q[url_id].retries + 1,
              ![url_id].claimed_at = NULL,
              ![url_id].claimed_by = NULL]

\* UPDATE url_queue SET status = CASE WHEN retries + 1 >= max_retries THEN 'failed'
\* ELSE 'pending' END, retries = retries + 1, claimed_at = NULL, claimed_by = NULL
\* WHERE id = $1 (the right-hand sides read the row as it was before the update)
mark_url_failed(q, url_id) ==
    [q EXCEPT ![url_id].status =
                  IF q[url_id].retries + 1 >= q[url_id].max_retries
                  THEN "failed" ELSE "pending",
              ![url_id].retries = q[url_id].retries + 1,
              ![url_id].claimed_at = NULL,
              ![url_id].claimed_by = NULL]

enqueue_url_resets_known(q, url, priority, geo_score, source, depth) ==
    IF HasUrl(q, url)
    THEN [q EXCEPT ![IdOfUrl(q, url)].status = "pending"]
    ELSE Append(q, NewRow(url, priority, Max(0, Min(BlendOne, geo_score)), source,
                          Max(0, depth), NULL))

\* INSERT INTO url_queue ... ON CONFLICT (url) DO NOTHING RETURNING id, with
\* max(0.0, min(1.0, geo_score)) and max(0, depth)
enqueue_url_unclamped(q, url, priority, geo_score, source, depth) ==
    IF HasUrl(q, url) THEN q
    ELSE Append(q, NewRow(url, priority, geo_score, source, depth, NULL))

enqueue_url(q, url, priority, geo_score, source, depth) ==
    IF HasUrl(q, url) THEN q
    ELSE Append(q, NewRow(url, priority, Max(0, Min(BlendOne, geo_score)), source,
                          Max(0, depth), NULL))

\* The value enqueue_url returns: row is not None.
enqueue_url_inserted(q, url) == ~HasUrl(q, url)

\* The SQL function upsert_discovered_url: insert a pending row with its parent,
\* or on a URL conflict raise the priority and the geo_score of the existing row
\* to the maximum of the old and the new one and leave status, source, depth and
\* parent alone.
sql_upsert_overwrites(q, parent_url_id, url, priority, geo_score, source, depth) ==
    IF HasUrl(q, url)
    THEN LET i == IdOfUrl(q, url)
         IN [q EXCEPT ![i].priority = priority, ![i].geo_score = geo_score]
    ELSE Append(q, NewRow(url, priority, geo_score, source, depth, {parent_url_id}))

sql_upsert_discovered_url(q, parent_url_id, url, priority, geo_score, source, depth) ==
    IF HasUrl(q, url)
    THEN LET i == IdOfUrl(q, url)
         IN [q EXCEPT ![i].priority = Max(q[i].priority, priority),
                      ![i].geo_score = Max(q[i].geo_score, geo_score)]
    ELSE Append(q, NewRow(url, priority, geo_score, source, depth, {parent_url_id}))

\* The value the SQL function returns: whether it inserted a row.
sql_upsert_inserted(q, url) == ~HasUrl(q, url)

\* db.upsert_discovered_url: passes its arguments on, with
\* max(0.0, min(1.0, geo_score)) and max(0, depth).
upsert_discovered_url(q, parent_url_id, url, priority, geo_score, source, depth) ==
    sql_upsert_discovered_url(q, parent_url_id, url, priority,
                              Max(0, Min(BlendOne, geo_score)), source, Max(0, depth))

\* (priority DESC, id ASC)
ClaimBefore(q, a, b) ==
    \/ q[a].priority > q[b].priority
    \/ q[a].priority = q[b].priority /\ a < b

PendingIds(q) == {i \in 1..Len(q) : q[i].status = "pending"}

RECURSIVE FirstN(_, _, _)
\* The first n ids of S in claim order, as a sequence.
FirstN(q, S, n) ==
    IF n <= 0 \/ S = {} THEN <<>>
    ELSE LET first == CHOOSE a \in S : \A b \in S \ {a} : ClaimBefore(q, a, b)
         IN <<first>> \o FirstN(q, S \ {first}, n - 1)

SeqToSet(s) == {s[i] : i \in 1..Len(s)}

claim_returns_in_progress(q, batch_size) ==
    FirstN(q, {i \in 1..Len(q) : q[i].status \in {"pending", "in_progress"}}, batch_size)

\* The SQL function claim_pending_urls, the rows it selects: up to batch_size
\* rows with status = 'pending' ordered by (priority DESC, id ASC).
sql_claim_select(q, batch_size) == FirstN(q, PendingIds(q), batch_size)

\* The SQL function claim_pending_urls, the update it applies to the selected
\* rows: status in_progress, claimed_by and claimed_at stamped.
sql_claim_update(q, ids, worker_id) ==
    [i \in 1..Len(q) |->
        IF i \in ids
        THEN [q[i] EXCEPT !.status = "in_progress",
                          !.claimed_by = {worker_id},
                          !.claimed_at = {"now"}]
        ELSE q[i]]

claim_passes_larger_batch(q, batch_size) == sql_claim_select(q, batch_size + 1)

\* db.claim_pending_urls: the ids of the rows the call returns.
claim_pending_urls(q, batch_size) == sql_claim_select(q, batch_size)


\* ------------------------------------------------------------- worker.py

Row(w) == Head(rows[w])

\* if counters.processed and counters.processed % metrics_every == 0
\* with metrics_every = max(1, get_metrics_flush_every())
MetricsDue(processed) ==
    processed # 0 /\ processed % Max(1, MetricsFlushEvery) = 0

\* A process whose run_worker was left by an exception: its locals are gone.
Crash(w) ==
    /\ pc' = [pc EXCEPT ![w] = "crashed"]
    /\ rows' = [rows EXCEPT ![w] = <<>>]
    /\ fdone' = [fdone EXCEPT ![w] = {}]
    /\ frontier_count' = [frontier_count EXCEPT ![w] = 0]

\* process_one returns to the row loop of run_worker, which goes on to the
\* periodic metrics check.
ReturnToLoop(w, processed) ==
    /\ pc' = [pc EXCEPT ![w] = IF MetricsDue(processed) THEN "flush_rows" ELSE "for"]
    /\ rows' = [rows EXCEPT ![w] = Tail(rows[w])]
    /\ fdone' = [fdone EXCEPT ![w] = {}]
    /\ frontier_count' = [frontier_count EXCEPT ![w] = 0]

\* _record_metrics: a worker_metrics row with the processed count, unless the
\* call raises (the caller logs and ignores that).
RecordMetrics(w) ==
    \E ok \in BOOLEAN :
        samples' = [samples EXCEPT ![w] =
                       IF ok THEN samples[w] \cup {counters[w].processed}
                       ELSE samples[w]]

\* The signal handler: RUN = False.
Shutdown(w) ==
    /\ pc[w] \notin {"stopped", "crashed"}
    /\ RUN[w]
    /\ RUN' = [RUN EXCEPT ![w] = FALSE]
    /\ UNCHANGED <<pure, latencies_ms, frontier_count, url_queue, pages, lease_over, pool, pc, rows, fdone, counters, samples, hist>>

\* while RUN: the claim is issued, or the loop is left.
LoopCheck(w) ==
    /\ pc[w] = "loop"
    /\ pc' = [pc EXCEPT ![w] = IF RUN[w] THEN "claiming" ELSE "final_flush"]
    /\ UNCHANGED <<pure, latencies_ms, frontier_count, url_queue, pages, lease_over, RUN, pool, rows, fdone, counters, samples, hist>>

\* rows = await claim_pending_urls(worker_id, batch_size) returns. On an empty
\* result the worker sleeps POLL_INTERVAL and continues; the sleep changes no
\* state, so the worker is back at while RUN.
ClaimReturns(w) ==
    /\ pc[w] = "claiming"
    /\ LET ids == claim_pending_urls(url_queue, get_batch_size(w))
       IN /\ url_queue' = sql_claim_update(url_queue, SeqToSet(ids), w)
          /\ lease_over' = lease_over \ SeqToSet(ids)
          /\ rows' = [rows EXCEPT ![w] = ids]
          /\ holding' = [holding EXCEPT ![w] = holding[w] \cup SeqToSet(ids)]
          /\ pc' = [pc EXCEPT ![w] =
                       IF ids # <<>> THEN "for"
                       ELSE IF MetricsDue(counters[w].processed) THEN "flush_empty"
                       ELSE "loop"]
    /\ UNCHANGED <<pure, latencies_ms, frontier_count, pages, RUN, pool, fdone, counters, samples, fail_calls>>

\* The claim raises: log, asyncio.sleep(POLL_INTERVAL), continue.
ClaimRaises(w) ==
    /\ pc[w] = "claiming"
    /\ pc' = [pc EXCEPT ![w] = "loop"]
    /\ UNCHANGED <<pure, latencies_ms, frontier_count, url_queue, pages, lease_over, RUN, pool, rows, fdone, counters, samples, hist>>

\* _record_metrics on an empty poll, then asyncio.sleep(POLL_INTERVAL), continue.
FlushEmpty(w) ==
    /\ pc[w] = "flush_empty"
    /\ RecordMetrics(w)
    /\ pc' = [pc EXCEPT ![w] = "loop"]
    /\ UNCHANGED <<pure, latencies_ms, frontier_count, url_queue, pages, lease_over, RUN, pool, rows, fdone, counters, hist>>

\* for row in rows: the batch is exhausted, back to while RUN.
ForEnds(w) ==
    /\ pc[w] = "for"
    /\ rows[w] = <<>>
    /\ pc' = [pc EXCEPT ![w] = "loop"]
    /\ UNCHANGED <<pure, latencies_ms, frontier_count, url_queue, pages, lease_over, RUN, pool, rows, fdone, counters, samples, hist>>

\* for row in rows: if not RUN: break
ForBreaks(w) ==
    /\ pc[w] = "for"
    /\ rows[w] # <<>>
    /\ ~RUN[w]
    /\ pc' = [pc EXCEPT ![w] = "final_flush"]
    /\ rows' = [rows EXCEPT ![w] = <<>>]
    /\ UNCHANGED <<pure, latencies_ms, frontier_count, url_queue, pages, lease_over, RUN, pool, fdone, counters, samples, hist>>

\* for row in rows: process_one(row) is called and awaits get_page_html.
ProcessOneStarts(w) ==
    /\ pc[w] = "for"
    /\ rows[w] # <<>>
    /\ RUN[w]
    /\ pc' = [pc EXCEPT ![w] = "fetch"]
    /\ UNCHANGED <<pure, latencies_ms, frontier_count, url_queue, pages, lease_over, RUN, pool, rows, fdone, counters, samples, hist>>

\* get_page_html returns markup.
FetchOk(w) ==
    /\ pc[w] = "fetch"
    /\ pc' = [pc EXCEPT ![w] = "insert_raw_page"]
    /\ UNCHANGED <<pure, latencies_ms, frontier_count, url_queue, pages, lease_over, RUN, pool, rows, fdone, counters, samples, hist>>

StageFailed_skips_counter(w) ==
    /\ counters' = counters
    /\ pc' = [pc EXCEPT ![w] = "mark_failed"]

\* A stage of process_one failed: counters.failed += 1, then mark_url_failed.
StageFailed(w) ==
    /\ counters' = [counters EXCEPT ![w].failed = @ + 1]
    /\ pc' = [pc EXCEPT ![w] = "mark_failed"]

\* get_page_html raises or returns no markup.
FetchFails(w) ==
    /\ pc[w] = "fetch"
    /\ StageFailed(w)
    /\ UNCHANGED <<pure, latencies_ms, frontier_count, url_queue, pages, lease_over, RUN, pool, rows, fdone, samples, hist>>

\* insert_raw_page succeeds; analyze_dom_with_llm then returns or raises.
InsertRawPageOk(w) ==
    /\ pc[w] = "insert_raw_page"
    /\ raw_pages' = raw_pages \cup {Row(w)}
    /\ \E analysed \in BOOLEAN :
          IF analysed
          THEN pc' = [pc EXCEPT ![w] = "insert_extraction"] /\ counters' = counters
          ELSE StageFailed(w)
    /\ UNCHANGED <<pure, latencies_ms, frontier_count, url_queue, extractions, lease_over, RUN, pool, rows, fdone, samples, hist>>

InsertRawPageRaises(w) ==
    /\ pc[w] = "insert_raw_page"
    /\ StageFailed(w)
    /\ UNCHANGED <<pure, latencies_ms, frontier_count, url_queue, pages, lease_over, RUN, pool, rows, fdone, samples, hist>>

InsertExtractionOk_stores_nothing(w) ==
    /\ pc[w] = "insert_extraction"
    /\ pc' = [pc EXCEPT ![w] = "frontier"]
    /\ UNCHANGED <<pure, latencies_ms, frontier_count, url_queue, pages, lease_over, RUN, pool, rows, fdone, counters, samples, hist>>

\* insert_extraction succeeds; _enqueue_frontier is entered.
InsertExtractionOk(w) ==
    /\ pc[w] = "insert_extraction"
    /\ extractions' = extractions \cup {Row(w)}
    /\ pc' = [pc EXCEPT ![w] = "frontier"]
    /\ UNCHANGED <<pure, latencies_ms, frontier_count, url_queue, raw_pages, lease_over, RUN, pool, rows, fdone, counters, samples,
                   hist>>

InsertExtractionRaises(w) ==
    /\ pc[w] = "insert_extraction"
    /\ StageFailed(w)
    /\ UNCHANGED <<pure, latencies_ms, frontier_count, url_queue, pages, lease_over, RUN, pool, rows, fdone, samples, hist>>

\* frontier_candidates returns no candidate when current_depth >= max_depth,
\* and at most max_links of them, pairwise different, otherwise.
MoreCandidates(w) ==
    /\ url_queue[Row(w)].depth < FrontierMaxDepth
    /\ Cardinality(fdone[w]) < FrontierMaxLinks

\* The blended score of the candidates of the fleet's web. The score plays no
\* part in the control flow of the workers: the fleet runs with the admission
\* threshold 0 and candidates of score 0, and the scores the queue receives
\* are followed in SpecQueue.
CandidateScore == 0

\* _enqueue_frontier: the next admitted candidate is upserted.
FrontierUpsert(w) ==
    /\ pc[w] = "frontier"
    /\ MoreCandidates(w)
    /\ \E url \in Urls \ fdone[w], priority \in Priorities :
          /\ url_queue' = upsert_discovered_url(url_queue, Row(w), url, priority,
                                                CandidateScore, "frontier",
                                                url_queue[Row(w)].depth + 1)
          /\ fdone' = [fdone EXCEPT ![w] = @ \cup {url}]
    /\ UNCHANGED <<pure, latencies_ms, frontier_count, pages, lease_over, RUN, pool, pc, rows, counters, samples, hist>>

FrontierRaises_voids_page(w) ==
    /\ pc[w] = "frontier"
    /\ url_queue[Row(w)].depth < FrontierMaxDepth
    /\ counters' = [counters EXCEPT ![w].failed = @ + 1]
    /\ pc' = [pc EXCEPT ![w] = "mark_failed"]
    /\ frontier_count' = [frontier_count EXCEPT ![w] = 0]
    /\ UNCHANGED <<pure, latencies_ms, url_queue, pages, lease_over, RUN, pool, rows, fdone, samples, hist>>

\* _enqueue_frontier raises: logged, process_one goes on to mark_url_done.
FrontierRaises(w) ==
    /\ pc[w] = "frontier"
    /\ url_queue[Row(w)].depth < FrontierMaxDepth
    /\ pc' = [pc EXCEPT ![w] = "mark_done"]
    /\ frontier_count' = [frontier_count EXCEPT ![w] = 0]
    /\ UNCHANGED <<pure, latencies_ms, url_queue, pages, lease_over, RUN, pool, rows, fdone, counters, samples, hist>>

\* _enqueue_frontier returns.
FrontierReturns(w) ==
    /\ pc[w] = "frontier"
    /\ pc' = [pc EXCEPT ![w] = "mark_done"]
    /\ frontier_count' = [frontier_count EXCEPT ![w] = Cardinality(fdone[w])]
    /\ UNCHANGED <<pure, latencies_ms, url_queue, pages, lease_over, RUN, pool, rows, fdone, counters, samples, hist>>

\* await mark_url_done(url_id); counters.processed += 1;
\* runtime.latencies_ms.append(elapsed_ms); return.
MarkDoneOk(w) ==
    /\ pc[w] = "mark_done"
    /\ url_queue' = mark_url_done(url_queue, Row(w))
    /\ counters' = [counters EXCEPT ![w].processed = @ + 1]
    /\ holding' = [v \in Workers |-> holding[v] \ {Row(w)}]
    /\ lease_over' = lease_over \ {Row(w)}
    /\ ReturnToLoop(w, counters[w].processed + 1)
    /\ latencies_ms' = [latencies_ms EXCEPT ![w] = @ + 1]
    /\ UNCHANGED <<pure, pages, RUN, pool, samples, fail_calls>>

\* mark_url_done raises: nothing in process_one or run_worker catches it.
MarkDoneRaises(w) ==
    /\ pc[w] = "mark_done"
    /\ Crash(w)
    /\ UNCHANGED <<pure, latencies_ms, url_queue, pages, lease_over, RUN, pool, counters, samples, hist>>

MarkFailedOk_counts_again(w) ==
    /\ pc[w] = "mark_failed"
    /\ url_queue' = mark_url_failed(url_queue, Row(w))
    /\ counters' = [counters EXCEPT ![w].failed = @ + 1]
    /\ holding' = [v \in Workers |-> holding[v] \ {Row(w)}]
    /\ fail_calls' = [fail_calls EXCEPT ![Row(w)] = @ + 1]
    /\ lease_over' = lease_over \ {Row(w)}
    /\ ReturnToLoop(w, counters[w].processed)
    /\ UNCHANGED <<pure, latencies_ms, pages, RUN, pool, samples>>

\* await mark_url_failed(url_id, ...); return.
MarkFailedOk(w) ==
    /\ pc[w] = "mark_failed"
    /\ url_queue' = mark_url_failed(url_queue, Row(w))
    /\ holding' = [v \in Workers |-> holding[v] \ {Row(w)}]
    /\ fail_calls' = [fail_calls EXCEPT ![Row(w)] = @ + 1]
    /\ lease_over' = lease_over \ {Row(w)}
    /\ ReturnToLoop(w, counters[w].processed)
    /\ UNCHANGED <<pure, latencies_ms, pages, RUN, pool, counters, samples>>

\* mark_url_failed raises inside the except block: nothing catches it.
MarkFailedRaises(w) ==
    /\ pc[w] = "mark_failed"
    /\ Crash(w)
    /\ UNCHANGED <<pure, latencies_ms, url_queue, pages, lease_over, RUN, pool, counters, samples, hist>>

\* The periodic _record_metrics of the row loop.
FlushRows(w) ==
    /\ pc[w] = "flush_rows"
    /\ RecordMetrics(w)
    /\ pc' = [pc EXCEPT ![w] = "for"]
    /\ UNCHANGED <<pure, latencies_ms, frontier_count, url_queue, pages, lease_over, RUN, pool, rows, fdone, counters, hist>>

\* After the loop: the final _record_metrics (an error is logged and ignored),
\* await close_pool(), and run_worker returns.
FinalFlush(w) ==
    /\ pc[w] = "final_flush"
    /\ RecordMetrics(w)
    /\ pool' = [pool EXCEPT ![w] = FALSE]
    /\ pc' = [pc EXCEPT ![w] = "stopped"]
    /\ UNCHANGED <<pure, latencies_ms, frontier_count, url_queue, pages, lease_over, RUN, rows, fdone, counters, hist>>

\* ------------------------------------------------------- cli.py, the clock

\* enqueue_urls: enqueue_url(clean, priority=priority, source="seed", depth=0)
\* of a URL the queue does not hold. The URLs are interchangeable: the first
\* one to enter the queue is called "a".
Enqueue(url, priority) ==
    /\ enqueue_url_inserted(url_queue, url)
    /\ url_queue = <<>> => url = "a"
    /\ url_queue' = enqueue_url(url_queue, url, priority, 0, "seed", 0)
    /\ UNCHANGED <<pure, latencies_ms, frontier_count, pages, lease_over, RUN, pool, pc, rows, fdone, counters, samples, hist>>

\* enqueue_urls of a URL the queue holds: ON CONFLICT DO NOTHING.
EnqueueKnown(url, priority) ==
    /\ ~enqueue_url_inserted(url_queue, url)
    /\ url_queue' = enqueue_url(url_queue, url, priority, 0, "seed", 0)
    /\ UNCHANGED <<pure, latencies_ms, frontier_count, pages, lease_over, RUN, pool, pc, rows, fdone, counters, samples, hist>>

\* Time passes: the claimed_at of a row is now older than the lease. The lease
\* is configured well above the time a page takes (10 times the typical page
\* latency is recommended), so it runs out only on rows whose worker is gone.
LeaseElapses(i) ==
    /\ url_queue[i].claimed_at # NULL
    /\ \A w \in url_queue[i].claimed_by : pc[w] \in {"stopped", "crashed"}
    /\ i \notin lease_over
    /\ lease_over' = lease_over \cup {i}
    /\ UNCHANGED <<pure, latencies_ms, frontier_count, url_queue, pages, RUN, pool, pc, rows, fdone, counters, samples, hist>>

\* The database and the workers before any worker has started.
FleetInit ==
    /\ url_queue = <<>>
    /\ raw_pages = {}
    /\ extractions = {}
    /\ lease_over = {}
    /\ RUN = [w \in Workers |-> TRUE]
    /\ pool = [w \in Workers |-> TRUE]
    /\ pc = [w \in Workers |-> "loop"]
    /\ rows = [w \in Workers |-> <<>>]
    /\ fdone = [w \in Workers |-> {}]
    /\ frontier_count = [w \in Workers |-> 0]
    /\ counters = [w \in Workers |-> [processed |-> 0, failed |-> 0]]
    /\ latencies_ms = [w \in Workers |-> 0]
    /\ samples = [w \in Workers |-> {}]
    /\ holding = [w \in Workers |-> {}]
    /\ fail_calls = [i \in 1..Cardinality(Urls) |-> 0]

\* No call of the pure functions is being followed.
CallsIdle ==
    /\ db_call = <<>>
    /\ prio = <<>>

CanonIdle ==
    /\ cu_url = <<>>
    /\ cu_out = <<>>

FrontIdle ==
    /\ ef_pc = "idle"
    /\ ef_args = <<>>
    /\ geo_signals = <<>>
    /\ candidates = <<>>
    /\ cand_i = 0
    /\ upserted = <<>>

\* ------------------------------------------- frontier.py: canonicalize_url

\* A string is a sequence of characters. The lower-case letters and the
\* digits are all there; of the upper-case letters the model has those of
\* UpperOf.
LowerLetters == {"a", "b", "c", "d", "e", "f", "g", "h", "i", "j", "k", "l", "m", "n", "o",
                 "p", "q", "r", "s", "t", "u", "v", "w", "x", "y", "z"}
Digits == {"0", "1", "2", "3", "4", "5", "6", "7", "8", "9"}
UpperOf == [h |-> "H", t |-> "T", p |-> "P", s |-> "S", m |-> "M", x |-> "X"]
UpperLetters == {UpperOf[c] : c \in DOMAIN UpperOf}

\* urllib.parse.scheme_chars.
scheme_chars == LowerLetters \cup UpperLetters \cup Digits \cup {"+", "-", "."}

\* str.lower, one character and a string.
LowerChar(c) ==
    IF c \in UpperLetters THEN CHOOSE l \in DOMAIN UpperOf : UpperOf[l] = c ELSE c
lower(str) == [i \in 1..Len(str) |-> LowerChar(str[i])]

\* str.find(c, start) with positions counted from 1: 0 when c does not occur.
find(str, c, start) ==
    IF \E i \in start..Len(str) : str[i] = c
    THEN CHOOSE i \in start..Len(str) : str[i] = c /\ \A j \in start..(i - 1) : str[j] # c
    ELSE 0

\* str.rfind(c): the last position of c, 0 when c does not occur.
rfind(str, c) ==
    IF \E i \in 1..Len(str) : str[i] = c
    THEN CHOOSE i \in 1..Len(str) : str[i] = c /\ \A j \in (i + 1)..Len(str) : str[j] # c
    ELSE 0

\* str.lstrip and str.strip of blanks.
RECURSIVE lstrip(_)
lstrip(str) == IF str # <<>> /\ Head(str) = " " THEN lstrip(Tail(str)) ELSE str

RECURSIVE rstrip(_)
rstrip(str) ==
    IF str # <<>> /\ str[Len(str)] = " " THEN rstrip(SubSeq(str, 1, Len(str) - 1)) ELSE str

strip(str) == rstrip(lstrip(str))

From(str, i) == SubSeq(str, i, Len(str))
UpTo(str, i) == SubSeq(str, 1, i)

http == <<"h", "t", "t", "p">>
https == <<"h", "t", "t", "p", "s">>
ftp == <<"f", "t", "p">>

\* The one element of a one-element set. The parsers below hand each
\* intermediate result on as the element of such a set, so that it is
\* computed once however often the next step reads it.
the(S) == CHOOSE x \in S : TRUE

\* urllib.parse.urlsplit, first step: the scheme is what stands before the
\* first colon when that starts with a letter and is scheme characters only,
\* and it is lowercased.
split_scheme(url) ==
    LET i == find(url, ":", 1)
        has_scheme == /\ i > 1
                      /\ url[1] \in LowerLetters \cup UpperLetters
                      /\ \A k \in 1..(i - 1) : url[k] \in scheme_chars
    IN [scheme |-> IF has_scheme THEN lower(UpTo(url, i - 1)) ELSE <<>>,
        url |-> IF has_scheme THEN From(url, i + 1) ELSE url]

\* urlsplit, second step (_splitnetloc): the netloc follows a leading "//"
\* and ends before the first of "/", "?", "#".
split_netloc(r) ==
    LET has_netloc == Len(r.url) >= 2 /\ r.url[1] = "/" /\ r.url[2] = "/"
        ends == {find(r.url, c, 3) : c \in {"/", "?", "#"}} \ {0}
        delim == IF ends = {} THEN Len(r.url) + 1
                 ELSE CHOOSE e \in ends : \A d \in ends : e <= d
    IN [scheme |-> r.scheme,
        netloc |-> IF has_netloc THEN SubSeq(r.url, 3, delim - 1) ELSE <<>>,
        url |-> IF has_netloc THEN From(r.url, delim) ELSE r.url]

\* urlsplit, third step: the fragment is split off at the first "#".
split_fragment(r) ==
    LET hash == find(r.url, "#", 1)
    IN [scheme |-> r.scheme, netloc |-> r.netloc,
        fragment |-> IF hash > 0 THEN From(r.url, hash + 1) ELSE <<>>,
        url |-> IF hash > 0 THEN UpTo(r.url, hash - 1) ELSE r.url]

\* urlsplit, last step: the query is split off at the first "?".
split_query(r) ==
    LET mark == find(r.url, "?", 1)
    IN [scheme |-> r.scheme, netloc |-> r.netloc,
        path |-> IF mark > 0 THEN UpTo(r.url, mark - 1) ELSE r.url,
        query |-> IF mark > 0 THEN From(r.url, mark + 1) ELSE <<>>,
        fragment |-> r.fragment]

\* urllib.parse.urlsplit.
urlsplit(url) ==
    the({split_query(c) : c \in
            {split_fragment(b) : b \in
                {split_netloc(a) : a \in
                    {split_scheme(u) : u \in {lstrip(url)}}}}})

\* urllib.parse._splitparams on the path of the split URL: the parameters
\* start at the first ";" of the last path segment.
splitparams(parts) ==
    LET slash == rfind(parts.path, "/")
        semi == find(parts.path, ";", IF slash > 0 THEN slash ELSE 1)
    IN [scheme |-> parts.scheme,
        netloc |-> parts.netloc,
        path |-> IF semi > 0 THEN UpTo(parts.path, semi - 1) ELSE parts.path,
        params |-> IF semi > 0 THEN From(parts.path, semi + 1) ELSE <<>>,
        query |-> parts.query,
        fragment |-> parts.fragment]

\* urllib.parse.urlparse: urlsplit, then the params are split off the path
\* (all schemes of the model, the empty one included, are in uses_params).
urlparse(url) == the({splitparams(parts) : parts \in {urlsplit(url)}})

\* urllib.parse.urlunsplit (http, https and ftp are in uses_netloc).
urlunsplit(scheme, netloc, path, query, fragment) ==
    LET leading2 == Len(path) >= 2 /\ path[1] = "/" /\ path[2] = "/"
        rooted == IF path # <<>> /\ path[1] # "/" THEN <<"/">> \o path ELSE path
        u1 == IF netloc # <<>> \/ (scheme # <<>> /\ ~leading2)
              THEN <<"/", "/">> \o netloc \o rooted
              ELSE path
        u2 == IF scheme # <<>> THEN scheme \o <<":">> \o u1 ELSE u1
        u3 == IF query # <<>> THEN u2 \o <<"?">> \o query ELSE u2
    IN IF fragment # <<>> THEN u3 \o <<"#">> \o fragment ELSE u3

\* urllib.parse.urlunparse.
urlunparse(scheme, netloc, path, params, query, fragment) ==
    urlunsplit(scheme, netloc,
               IF params # <<>> THEN path \o <<";">> \o params ELSE path,
               query, fragment)

\* The body of canonicalize_url after the parse: the scheme test and the
\* rebuilt URL.
canonical(parsed) ==
    IF parsed.scheme \notin {http, https} THEN <<>>
    ELSE urlunparse(parsed.scheme, lower(parsed.netloc),
                    IF parsed.path = <<>> THEN <<"/">> ELSE parsed.path,
                    <<>>, parsed.query, <<>>)

\* frontier.canonicalize_url.
canonicalize_url(url) == the({canonical(parsed) : parsed \in {urlparse(strip(url))}})

\* The strings canonicalize_url is tried on: every way to put a URL together
\* from these parts, blanks around it or not.
Schemes == {<<>>, http \o <<":">>, <<"H", "t", "T", "p", "S", ":">>, ftp \o <<":">>,
            <<":">>}
Authorities == {<<>>, <<"/", "/">>, <<"/", "/", "x">>, <<"/", "/", "X", "@", "X", ":", "x">>}
Paths == {<<>>, <<"/">>, <<"x">>, <<"/", "X">>, <<"/", "/", "x">>, <<"/", "x", " ">>,
          <<"/", "x", ";", "x">>, <<"/", "x", ";", "x", "/", "x">>}
Queries == {<<>>, <<"?">>, <<"?", "X">>, <<"?", "x", " ">>}
Fragments == {<<>>, <<"#">>, <<"#", "x">>, <<"#", "x", "?", "x">>}
Blanks == {<<>>, <<" ">>}

InitCanon ==
    /\ FleetInit
    /\ \E scheme \in Schemes, authority \in Authorities, path \in Paths, query \in Queries,
          fragment \in Fragments, before \in Blanks, after \in Blanks :
          cu_url = before \o scheme \o authority \o path \o query \o fragment \o after
    /\ cu_out = <<>>
    /\ FrontIdle
    /\ CallsIdle

\* The first call, canonicalize_url(U).
Canonicalize ==
    /\ cu_out = <<>>
    /\ cu_out' = <<canonicalize_url(cu_url)>>
    /\ UNCHANGED <<fleet, front, calls, cu_url>>

\* The second call, on what the first one returned.
CanonicalizeAgain ==
    /\ Len(cu_out) = 1
    /\ cu_out' = Append(cu_out, canonicalize_url(cu_out[1]))
    /\ UNCHANGED <<fleet, front, calls, cu_url>>

NextCanon == Canonicalize \/ CanonicalizeAgain

SpecCanon == InitCanon /\ [][NextCanon]_vars

\* ------------------------------------------------- frontier.py: the scores

GEO_TERMS == {<<"m", "a", "p">>, <<"m", "a", "p", "p", "i", "n", "g">>,
              <<"g", "e", "o", "s", "p", "a", "t", "i", "a", "l">>,
              <<"g", "e", "o", "g", "r", "a", "p", "h", "y">>,
              <<"t", "e", "r", "r", "a", "i", "n">>,
              <<"s", "a", "t", "e", "l", "l", "i", "t", "e">>,
              <<"i", "m", "a", "g", "e", "r", "y">>, <<"s", "t", "r", "e", "e", "t">>,
              <<"c", "i", "t", "y">>, <<"u", "r", "b", "a", "n">>, <<"v", "p", "s">>,
              <<"l", "o", "c", "a", "l", "i", "z", "a", "t", "i", "o", "n">>,
              <<"p", "o", "s", "i", "t", "i", "o", "n", "i", "n", "g">>, <<"a", "r">>,
              <<"x", "r">>, <<"r", "o", "b", "o", "t">>,
              <<"r", "o", "b", "o", "t", "i", "c", "s">>,
              <<"a", "u", "t", "o", "n", "o", "m", "o", "u", "s">>,
              <<"d", "r", "o", "n", "e">>,
              <<"n", "a", "v", "i", "g", "a", "t", "i", "o", "n">>,
              <<"w", "a", "y", "f", "i", "n", "d", "i", "n", "g">>, <<"3", "d">>,
              <<"r", "e", "c", "o", "n", "s", "t", "r", "u", "c", "t", "i", "o", "n">>,
              <<"s", "f", "m">>, <<"g", "a", "u", "s", "s", "i", "a", "n">>,
              <<"s", "p", "l", "a", "t", "t", "i", "n", "g">>, <<"m", "e", "s", "h">>,
              <<"p", "o", "i", "n", "t", "c", "l", "o", "u", "d">>,
              <<"c", "o", "o", "r", "d", "i", "n", "a", "t", "e">>, <<"g", "i", "s">>,
              <<"l", "i", "d", "a", "r">>}

NOISE_TERMS == {<<"l", "o", "g", "i", "n">>, <<"s", "i", "g", "n", "u", "p">>,
                <<"p", "r", "i", "v", "a", "c", "y">>, <<"t", "e", "r", "m", "s">>,
                <<"c", "a", "r", "e", "e", "r", "s">>, <<"c", "o", "n", "t", "a", "c", "t">>,
                <<"c", "o", "o", "k", "i", "e">>,
                <<"a", "d", "v", "e", "r", "t", "i", "s", "e">>,
                <<"s", "p", "o", "n", "s", "o", "r">>}

\* frontier._clamp.
_clamp_identity(value, high) == value

_clamp(value, high) ==
    IF value < 0 THEN 0 ELSE IF value > high THEN high ELSE value

\* `word in lowered`.
contains(str, word) ==
    \E i \in 1..(Len(str) - Len(word) + 1) : SubSeq(str, i, i + Len(word) - 1) = word

\* frontier._keyword_hits times `factor` tenths (the callers multiply by 3.7,
\* 2.6 and 3.4), as a fraction of ScoreOne:
\* hits / (0.35 * len(words)) * factor / 10 = hits * factor * 2 / (7 * len(words)).
_keyword_hits(text, words, factor) ==
    IF text = <<>> THEN 0
    ELSE Cardinality({word \in words : contains(text, word)}) * factor * 2
            * (ScoreOne \div (7 * Cardinality(words)))

\* The last two dot-separated labels of a host: host.split(".")[-2:].
last_two_labels(host) ==
    LET dots == {i \in 1..Len(host) : host[i] = "."}
        cut == {i \in dots : Cardinality({j \in dots : j >= i}) = 2}
    IN IF cut = {} THEN host ELSE From(host, the(cut) + 1)

\* frontier._host_affinity, in hundredths.
host_affinity_of(parent_host, cand_host) ==
    IF parent_host = <<>> \/ cand_host = <<>> THEN 0
    ELSE IF parent_host = cand_host THEN 100
    ELSE IF last_two_labels(parent_host) = last_two_labels(cand_host) THEN 78
    ELSE 45

_host_affinity(parent_url, candidate_url) ==
    the({host_affinity_of(parent_host, cand_host) :
            parent_host \in {lower(urlparse(parent_url).netloc)},
            cand_host \in {lower(urlparse(candidate_url).netloc)}})

\* path.count("/") of the candidate's path.
slash_count(href) ==
    the({Cardinality({i \in 1..Len(path) : path[i] = "/"}) : path \in {urlparse(href).path}})

\* The depth penalty of score_frontier_candidate, in hundredths:
\* min(0.28, (slash_count - 5) * 0.05) above five slashes.
depth_penalty(slashes) ==
    IF slashes > 5 THEN (IF (slashes - 5) * 5 < 28 THEN (slashes - 5) * 5 ELSE 28) ELSE 0

\* The weighted sum and the clamp of score_frontier_candidate:
\* geo * 0.62 + host * 0.28 + (1.0 - noise) * 0.10 - depth_penalty.
candidate_score(geo, noise, host, penalty) ==
    _clamp((62 * geo + 28 * host * (ScoreOne \div 100) + 10 * (ScoreOne - noise)) \div 100
                - penalty * (ScoreOne \div 100),
           ScoreOne)

\* The reason of score_frontier_candidate.
candidate_reason(geo, noise, host) ==
    IF 10 * geo > 7 * ScoreOne THEN "geo-dense"
    ELSE IF host > 90 THEN "host-affinity"
    ELSE IF 10 * noise > 3 * ScoreOne THEN "likely-noise"
    ELSE "explore"

score_of_blob(parent_url, href, blob) ==
    the({[score |-> candidate_score(geo, noise, host, penalty),
          reason |-> candidate_reason(geo, noise, host)] :
            geo \in {_clamp(_keyword_hits(blob, GEO_TERMS, 37), ScoreOne)},
            noise \in {_clamp(_keyword_hits(blob, NOISE_TERMS, 26), ScoreOne)},
            host \in {_host_affinity(parent_url, href)},
            penalty \in {depth_penalty(slash_count(href))}})

\* frontier.score_frontier_candidate.
score_frontier_candidate(parent_url, href, text) ==
    the({score_of_blob(parent_url, href, blob) : blob \in {lower(href \o <<" ">> \o text)}})

\* --------------------------------------- frontier.py: compute_geo_signals

\* str[:n].
prefix(str, n) == IF Len(str) > n THEN SubSeq(str, 1, n) ELSE str

\* The characters the regular expressions count as word characters (\w).
word_chars == LowerLetters \cup UpperLetters \cup Digits \cup {"_"}

\* re.search(r"\b(202[4-9]|203\d)\b", blob): a year 2024..2039 that stands
\* as a word of its own.
has_recent_year(blob) ==
    \E i \in 1..(Len(blob) - 3) :
        /\ blob[i] = "2"
        /\ blob[i + 1] = "0"
        /\ \/ blob[i + 2] = "2" /\ blob[i + 3] \in {"4", "5", "6", "7", "8", "9"}
           \/ blob[i + 2] = "3" /\ blob[i + 3] \in Digits
        /\ i > 1 => blob[i - 1] \notin word_chars
        /\ i + 3 < Len(blob) => blob[i + 4] \notin word_chars

\* The freshness signal, in hundredths.
freshness_of(article_date, blob) ==
    IF has_recent_year(blob) THEN 80 ELSE IF article_date THEN 65 ELSE 0

\* The structured-data signal, in hundredths, of the lowercased main content.
structured_of(content) ==
    IF contains(content, <<"a", "p", "p", "l", "i", "c", "a", "t", "i", "o", "n", "/", "l", "d", "+", "j", "s", "o", "n">>) THEN 70
    ELSE IF \E k \in {<<"s", "c", "h", "e", "m", "a", ".", "o", "r", "g">>, <<"g", "e", "o">>, <<"l", "a", "t", "i", "t", "u", "d", "e">>, <<"l", "o", "n", "g", "i", "t", "u", "d", "e">>} : contains(content, k)
         THEN 60
    ELSE 0

\* The links of the payload whose href or text holds a geo term.
strong_links(links) ==
    {i \in 1..Len(links) :
        \E blob \in {lower(links[i].href \o <<" ">> \o links[i].text)} :
            \E term \in GEO_TERMS : contains(blob, term)}

\* The link-quality signal: _clamp(strong / max(1, min(len(links), 15))).
quality_of(strong, count) ==
    _clamp((strong * ScoreOne) \div (IF count = 0 THEN 1 ELSE IF count > 15 THEN 15 ELSE count),
           ScoreOne)

\* frontier.compute_geo_signals: the four signals as fractions of ScoreOne.
compute_geo_signals(url, payload) ==
    the({[geo_term_density |-> _clamp(_keyword_hits(lower(blob), GEO_TERMS, 34), ScoreOne),
          freshness_signal |-> freshness_of(payload.article_date, blob) * (ScoreOne \div 100),
          structured_data_signal |->
              structured_of(lower(payload.main_content)) * (ScoreOne \div 100),
          link_quality_signal |->
              quality_of(Cardinality(strong_links(payload.links)), Len(payload.links))] :
            blob \in {url \o <<"\n">> \o payload.title \o <<"\n">> \o payload.description
                          \o <<"\n">> \o prefix(payload.main_content, 5000)}})

aggregate_score_even_weights(self) ==
    _clamp((25 * self.geo_term_density + 25 * self.freshness_signal
                + 25 * self.structured_data_signal + 25 * self.link_quality_signal) \div 100,
           ScoreOne)

\* GeoSignals.aggregate_score.
aggregate_score(self) ==
    _clamp((42 * self.geo_term_density + 18 * self.freshness_signal
                + 22 * self.structured_data_signal + 18 * self.link_quality_signal) \div 100,
           ScoreOne)

\* --------------------------------------- frontier.py: frontier_candidates

\* urllib.parse.urljoin for a reference with a scheme or a host (an absolute
\* or scheme-relative href, which is what the anchors of the model carry):
\* a reference of another scheme is returned as it is, a reference with a
\* host is parsed and put together again under the scheme of the base.
urljoin_parsed(base, url, bscheme, ref) ==
    LET scheme == IF ref.scheme = <<>> THEN bscheme ELSE ref.scheme
    IN IF scheme # bscheme THEN url
       ELSE urlunparse(scheme, ref.netloc, ref.path, ref.params, ref.query, ref.fragment)

urljoin(base, url) ==
    IF base = <<>> THEN url
    ELSE IF url = <<>> THEN base
    ELSE the({urljoin_parsed(base, url, bscheme, ref) :
                bscheme \in {urlparse(base).scheme}, ref \in {urlparse(url)}})

\* frontier.extract_links, from the anchors the regular expression finds in
\* the markup, in their order: each anchor is its href and its text without
\* tags. `out` is the list built so far.
RECURSIVE extract_links_from(_, _, _, _)
extract_links_from(anchors, base_url, max_links, out) ==
    IF anchors = <<>> THEN out
    ELSE LET abs_url == the({canonicalize_url(urljoin(base_url, href_raw)) :
                                href_raw \in {strip(Head(anchors).href)}})
             more == the({IF u = <<>> \/ \E k \in 1..Len(out) : out[k].href = u
                          THEN out
                          ELSE Append(out, [href |-> u,
                                            text |-> prefix(Head(anchors).text, 220)]) :
                            u \in {abs_url}})
         IN the({IF Len(o) > Len(out) /\ Len(o) >= max_links
                 THEN o
                 ELSE extract_links_from(Tail(anchors), base_url, max_links, o) :
                    o \in {more}})

extract_links(html, base_url, max_links) ==
    extract_links_from(html, base_url, max_links, <<>>)

\* The first loop of frontier_candidates: the links of the payload whose
\* canonical href is not empty, with that href and text[:220].
RECURSIVE payload_links(_)
payload_links(links) ==
    IF links = <<>> THEN <<>>
    ELSE the({IF href = <<>> THEN payload_links(Tail(links))
              ELSE <<[href |-> href, text |-> prefix(Head(links).text, 220)]>>
                        \o payload_links(Tail(links)) :
                href \in {canonicalize_url(Head(links).href)}})

\* The harvest: the markup is scanned when the payload gave fewer than
\* max_links // 2 links.
harvest(payload, html, parent_url, max_links) ==
    the({IF Len(links) < max_links \div 2
         THEN links \o extract_links(html, parent_url, max_links)
         ELSE links :
            links \in {payload_links(payload.links)}})

\* The dedup loop: the dictionary as the list of its items in insertion
\* order; a link whose canonical href is already a key is dropped.
RECURSIVE dedup_links(_, _)
dedup_links(links, dedup) ==
    IF links = <<>> THEN dedup
    ELSE the({dedup_links(Tail(links),
                 IF href = <<>> \/ \E k \in 1..Len(dedup) : dedup[k].href = href
                 THEN dedup
                 ELSE Append(dedup, [href |-> href, text |-> Head(links).text])) :
                href \in {canonicalize_url(Head(links).href)}})

\* blended_score = _clamp(score * 0.72 + page_geo_score * 0.28).
blend_lowers(score, page_geo_score) ==
    _clamp(18 * score + 7 * (ScoreOne - page_geo_score), BlendOne)

blend(score, page_geo_score) == _clamp(18 * score + 7 * page_geo_score, BlendOne)

priority_of_decays_on(blended_score, current_depth) ==
    (blended_score + (BlendOne \div 100) - 1) \div (BlendOne \div 100)
        + (20 - current_depth * 6)

\* int(math.ceil(blended_score * 100.0)) + max(0, 20 - current_depth * 6).
priority_of(blended_score, current_depth) ==
    (blended_score + (BlendOne \div 100) - 1) \div (BlendOne \div 100)
        + (IF 20 - current_depth * 6 > 0 THEN 20 - current_depth * 6 ELSE 0)

\* FrontierCandidate(url, geo_score, priority, reason).
FrontierCandidate(url, geo_score, current_depth, reason) ==
    [url |-> url, geo_score |-> geo_score,
     priority |-> priority_of(geo_score, current_depth), reason |-> reason]

\* The body of the scoring loop for one item of the dictionary.
candidate_of(parent_url, link, current_depth, page_geo_score) ==
    the({the({FrontierCandidate(link.href, blended_score, current_depth, scored.reason) :
                blended_score \in {blend(scored.score, page_geo_score)}}) :
            scored \in {score_frontier_candidate(parent_url, link.href, link.text)}})

\* out.sort(key=lambda item: (item.geo_score, item.priority), reverse=True):
\* a stable sort, the greater key first.
key_less(a, b) ==
    \/ a.geo_score < b.geo_score
    \/ a.geo_score = b.geo_score /\ a.priority < b.priority

ranked_before(out, i, j) ==
    \/ key_less(out[j], out[i])
    \/ ~key_less(out[i], out[j]) /\ i < j

sort_ascending(out) ==
    [p \in 1..Len(out) |->
        out[CHOOSE i \in 1..Len(out) :
                Cardinality({j \in 1..Len(out) : j # i /\ ranked_before(out, i, j)}) = p - 1]]

sort(out) ==
    [p \in 1..Len(out) |->
        out[CHOOSE i \in 1..Len(out) :
                Cardinality({j \in 1..Len(out) : j # i /\ ranked_before(out, j, i)}) = p - 1]]

\* out[:max_links].
slice(out, max_links) ==
    IF max_links >= Len(out) THEN out
    ELSE IF max_links >= 0 THEN SubSeq(out, 1, max_links)
    ELSE IF Len(out) + max_links > 0 THEN SubSeq(out, 1, Len(out) + max_links)
    ELSE <<>>

\* The list `out` of frontier_candidates before it is sorted: harvest, dedup
\* and the scoring loop.
scored_links(parent_url, payload, html, current_depth, max_links, page_geo_score) ==
    the({[k \in 1..Len(dedup) |->
             candidate_of(parent_url, dedup[k], current_depth, page_geo_score)] :
            dedup \in {dedup_links(harvest(payload, html, parent_url, max_links), <<>>)}})

\* frontier_candidates below the depth gate: that list, sorted and truncated.
expand(parent_url, payload, html, current_depth, max_links, page_geo_score) ==
    the({the({slice(ranked, max_links) : ranked \in {sort(out)}}) :
            out \in {scored_links(parent_url, payload, html, current_depth, max_links,
                                  page_geo_score)}})

frontier_candidates_gate_late(parent_url, payload, html, current_depth, max_depth, max_links, page_geo_score) ==
    IF current_depth > max_depth THEN <<>>
    ELSE expand(parent_url, payload, html, current_depth, max_links, page_geo_score)

frontier_candidates_ungated(parent_url, payload, html, current_depth, max_depth, max_links, page_geo_score) ==
    expand(parent_url, payload, html, current_depth, max_links, page_geo_score)

\* frontier.frontier_candidates.
frontier_candidates(parent_url, payload, html, current_depth, max_depth, max_links, page_geo_score) ==
    IF current_depth >= max_depth THEN <<>>
    ELSE expand(parent_url, payload, html, current_depth, max_links, page_geo_score)

\* ------------------------------- worker.py: the frontier step of one page

\* The inputs the frontier step is tried on. The parent page:
ParentUrl == <<"h", "t", "t", "p", ":", "/", "/", "s", ".", "x", ".", "x", "/">>

\* what the extractor can hand on as title, description, main content and
\* article date of the page;
Pages ==
    {[title |-> <<>>, description |-> <<>>, main_content |-> <<>>, article_date |-> FALSE],
     [title |-> <<"M", "a", "p">>, description |-> <<>>, main_content |-> <<"g", "e", "o", " ", "2", "0", "2", "5">>,
      article_date |-> TRUE],
     [title |-> <<>>, description |-> <<"g", "i", "s">>, main_content |-> <<"x", "2", "0", "2", "5", " ", "a", "p", "p", "l", "i", "c", "a", "t", "i", "o", "n", "/", "l", "d", "+", "j", "s", "o", "n">>,
      article_date |-> TRUE],
     [title |-> <<"3", "d", " ", "M", "e", "s", "h">>, description |-> <<"l", "i", "d", "a", "r">>,
      main_content |-> <<"t", "e", "r", "r", "a", "i", "n", " ", "m", "a", "p", " ", "o", "f", " ", "t", "h", "e", " ", "c", "i", "t", "y">>, article_date |-> FALSE]}

\* the links of the payload;
PayloadLinks ==
    {[href |-> <<"h", "t", "t", "p", ":", "/", "/", "s", ".", "x", ".", "x", "/", "x">>, text |-> <<"M", "a", "p", " ", "l", "i", "d", "a", "r">>],
     [href |-> <<"h", "t", "t", "p", ":", "/", "/", "S", ".", "x", ".", "x", "/", "x", "#", "f">>, text |-> <<"l", "o", "g", "i", "n">>],
     [href |-> <<"h", "t", "t", "p", ":", "/", "/", "s", ".", "x", ".", "x", "/", "x", " ", "#", "f">>, text |-> <<>>],
     [href |-> <<"h", "t", "t", "p", ":", "/", "/", "t", ".", "x", ".", "x", "/", "x", "/", "x", "/", "x", "/", "x", "/", "x", "/", "x">>, text |-> <<"c", "a", "r", "e", "e", "r", "s", " ", "c", "o", "o", "k", "i", "e">>],
     [href |-> <<"f", "t", "p", ":", "/", "/", "x", "/">>, text |-> <<"m", "a", "p">>],
     [href |-> <<"h", "t", "t", "p", ":", "/", "/", "/", "/", "/", "/", "x">>, text |-> <<>>],
     [href |-> <<"h", "t", "t", "p", ":", "/", "/", "x", "/">>, text |-> <<"3", "d", " ", "m", "e", "s", "h", " ", "g", "i", "s">>]}

\* the anchors of the markup.
Anchors ==
    {[href |-> <<" ", "h", "t", "t", "p", ":", "/", "/", "s", ".", "x", ".", "x", "/", "x">>, text |-> <<"p", "r", "i", "v", "a", "c", "y", " ", "t", "e", "r", "m", "s">>],
     [href |-> <<"/", "/", "t", ".", "x", ".", "x", "/", "x", "?", "x">>, text |-> <<"s", "a", "t", "e", "l", "l", "i", "t", "e", " ", "i", "m", "a", "g", "e", "r", "y">>],
     [href |-> <<"h", "t", "t", "p", "s", ":", "/", "/", "x">>, text |-> <<"t", "e", "r", "m", "s">>]}

MaxPayloadLinks == 2
MaxAnchors == 1
MaxLinksValues == {0, 1, 2, 4}
MaxDepthValues == {1, 2}
Thresholds == {0, 50}

SeqsUpTo(S, n) == UNION {[1..k -> S] : k \in 0..n}

\* process_one has the payload of the extractor in hand (worker.py:158).
InitFrontier ==
    /\ FleetInit
    /\ CanonIdle
    /\ CallsIdle
    /\ ef_pc = "signals"
    /\ \E page \in Pages, links \in SeqsUpTo(PayloadLinks, MaxPayloadLinks),
          html \in SeqsUpTo(Anchors, MaxAnchors), max_depth \in MaxDepthValues,
          current_depth \in 0..(FrontierMaxDepth + 1), max_links \in MaxLinksValues,
          min_geo_score \in Thresholds :
          ef_args = [parent_url |-> ParentUrl,
                     payload |-> [title |-> page.title, description |-> page.description,
                                  main_content |-> page.main_content,
                                  article_date |-> page.article_date, links |-> links],
                     html |-> html,
                     current_depth |-> current_depth,
                     max_depth |-> max_depth,
                     max_links |-> max_links,
                     min_geo_score |-> min_geo_score]
    /\ geo_signals = <<>>
    /\ candidates = <<>>
    /\ cand_i = 0
    /\ upserted = <<>>

\* worker.py:160-161: geo_signals = compute_geo_signals(url, payload).
ComputeGeoSignals ==
    /\ ef_pc = "signals"
    /\ geo_signals' = compute_geo_signals(ef_args.parent_url, ef_args.payload)
    /\ ef_pc' = "call"
    /\ UNCHANGED <<fleet, canon, calls, ef_args, candidates, cand_i, upserted>>

\* _enqueue_frontier, worker.py:80-88: candidates = frontier_candidates(...)
\* with page_geo_score = geo_signals.aggregate_score.
CallFrontierCandidates ==
    /\ ef_pc = "call"
    /\ candidates' = frontier_candidates(ef_args.parent_url, ef_args.payload, ef_args.html,
                                         ef_args.current_depth, ef_args.max_depth,
                                         ef_args.max_links, aggregate_score(geo_signals))
    /\ cand_i' = 1
    /\ ef_pc' = "loop"
    /\ UNCHANGED <<fleet, canon, calls, ef_args, geo_signals, upserted>>

\* worker.py:92-93: `if cand.geo_score < min_geo_score: continue`, negated;
\* min_geo_score is in hundredths.
admitted_any(cand, min_geo_score) == TRUE

admitted(cand, min_geo_score) == ~(cand.geo_score < min_geo_score * (BlendOne \div 100))

\* One pass of the loop of _enqueue_frontier (worker.py:91-105) for a
\* candidate below the threshold.
SkipCandidate ==
    /\ ef_pc = "loop"
    /\ cand_i <= Len(candidates)
    /\ ~admitted(candidates[cand_i], ef_args.min_geo_score)
    /\ cand_i' = cand_i + 1
    /\ UNCHANGED <<fleet, canon, calls, ef_args, ef_pc, geo_signals, candidates, upserted>>

\* One pass of the loop for an admitted candidate: the call of
\* upsert_discovered_url returns.
UpsertCandidate ==
    /\ ef_pc = "loop"
    /\ cand_i <= Len(candidates)
    /\ admitted(candidates[cand_i], ef_args.min_geo_score)
    /\ upserted' = Append(upserted, [url |-> candidates[cand_i].url,
                                     priority |-> candidates[cand_i].priority,
                                     geo_score |-> candidates[cand_i].geo_score,
                                     depth |-> ef_args.current_depth + 1])
    /\ cand_i' = cand_i + 1
    /\ UNCHANGED <<fleet, canon, calls, ef_args, ef_pc, geo_signals, candidates>>

\* The call of upsert_discovered_url raises: _enqueue_frontier is left and
\* process_one goes on after its except clause (worker.py:196-198).
UpsertRaises ==
    /\ ef_pc = "loop"
    /\ cand_i <= Len(candidates)
    /\ admitted(candidates[cand_i], ef_args.min_geo_score)
    /\ ef_pc' = "raised"
    /\ UNCHANGED <<fleet, canon, calls, ef_args, geo_signals, candidates, cand_i, upserted>>

\* worker.py:106: the loop is over, _enqueue_frontier returns.
EnqueueReturns ==
    /\ ef_pc = "loop"
    /\ cand_i > Len(candidates)
    /\ ef_pc' = "returned"
    /\ UNCHANGED <<fleet, canon, calls, ef_args, geo_signals, candidates, cand_i, upserted>>

NextFrontier ==
    \/ ComputeGeoSignals
    \/ CallFrontierCandidates
    \/ SkipCandidate
    \/ UpsertCandidate
    \/ UpsertRaises
    \/ EnqueueReturns

SpecFrontier == InitFrontier /\ [][NextFrontier]_vars

\* --------------------------- compute_geo_signals on pages with many links

\* The links of such a page: a link without a geo term, one with a geo term
\* in its href and one with a geo term in its text.
PlainLink == [href |-> <<"h", "t", "t", "p", ":", "/", "/", "x", "/", "x">>, text |-> <<"l", "o", "g", "i", "n">>]
HrefLink == [href |-> <<"h", "t", "t", "p", ":", "/", "/", "x", "/", "m", "a", "p">>, text |-> <<>>]
TextLink == [href |-> <<"h", "t", "t", "p", ":", "/", "/", "x", "/", "x">>, text |-> <<"S", "t", "r", "e", "e", "t", " ", "v", "i", "e", "w">>]

MaxSignalLinks == 17

\* The text of such a page: none; a title with two geo terms ("lidar" and the
\* "ar" in it); with a third term beside them and no other signal; the same
\* with a date, a year and structured data; and a text with many terms.
SignalPages ==
    {[title |-> <<>>, description |-> <<>>, main_content |-> <<>>, article_date |-> FALSE],
     [title |-> <<"l", "i", "d", "a", "r">>, description |-> <<>>, main_content |-> <<>>, article_date |-> FALSE],
     [title |-> <<"l", "i", "d", "a", "r">>, description |-> <<"g", "i", "S">>, main_content |-> <<>>, article_date |-> FALSE],
     [title |-> <<"l", "i", "d", "a", "r">>, description |-> <<>>, main_content |-> <<"g", "i", "S", " ", "2", "0", "2", "5", " ", "a", "p", "p", "l", "i", "c", "a", "t", "i", "o", "n", "/", "l", "d", "+", "j", "s", "o", "n">>,
      article_date |-> TRUE],
     [title |-> <<"3", "d", " ", "M", "e", "s", "h">>, description |-> <<"d", "r", "o", "n", "e">>, main_content |-> <<"t", "e", "r", "r", "a", "i", "n", " ", "m", "a", "p", " ", "o", "f", " ", "t", "h", "e", " ", "c", "i", "t", "y">>,
      article_date |-> FALSE]}

Repeat(link, n) == [k \in 1..n |-> link]

\* process_one has the payload of a page whose links are some plain links,
\* some links with a geo term, plain links again and links with a geo term
\* again. A page of 11 or 13 links is left out: the fractions of ScoreOne
\* are exact for every other number of links up to 15. The pages with a text
\* have two links at most.
InitSignals ==
    /\ FleetInit
    /\ CanonIdle
    /\ CallsIdle
    /\ ef_pc = "signals"
    /\ \E page \in SignalPages, a, b, c, d \in 0..MaxSignalLinks :
          /\ a + b + c + d <= MaxSignalLinks
          /\ a + b + c + d \notin {11, 13}
          /\ page.title # <<>> => a + b + c + d <= 2
          /\ ef_args = [parent_url |-> ParentUrl,
                        payload |-> [title |-> page.title, description |-> page.description,
                                     main_content |-> page.main_content,
                                     article_date |-> page.article_date,
                                     links |-> Repeat(PlainLink, a) \o Repeat(HrefLink, b)
                                                   \o Repeat(PlainLink, c) \o Repeat(TextLink, d)],
                        html |-> <<>>,
                        current_depth |-> 0,
                        max_depth |-> FrontierMaxDepth,
                        max_links |-> FrontierMaxLinks,
                        min_geo_score |-> 0]
    /\ geo_signals = <<>>
    /\ candidates = <<>>
    /\ cand_i = 0
    /\ upserted = <<>>

NextSignals == ComputeGeoSignals

SpecSignals == InitSignals /\ [][NextSignals]_vars

PureIdle ==
    /\ CanonIdle
    /\ FrontIdle
    /\ CallsIdle

Init ==
    /\ FleetInit
    /\ PureIdle

WorkerStep(w) ==
    \/ Shutdown(w)
    \/ LoopCheck(w)
    \/ ClaimReturns(w)
    \/ ClaimRaises(w)
    \/ FlushEmpty(w)
    \/ ForEnds(w)
    \/ ForBreaks(w)
    \/ ProcessOneStarts(w)
    \/ FetchOk(w)
    \/ FetchFails(w)
    \/ InsertRawPageOk(w)
    \/ InsertRawPageRaises(w)
    \/ InsertExtractionOk(w)
    \/ InsertExtractionRaises(w)
    \/ FrontierUpsert(w)
    \/ FrontierRaises(w)
    \/ FrontierReturns(w)
    \/ MarkDoneOk(w)
    \/ MarkDoneRaises(w)
    \/ MarkFailedOk(w)
    \/ MarkFailedRaises(w)
    \/ FlushRows(w)
    \/ FinalFlush(w)

Next ==
    \/ \E w \in Workers : WorkerStep(w)
    \/ \E url \in Urls, priority \in Priorities : Enqueue(url, priority)
    \/ \E url \in Urls, priority \in Priorities : EnqueueKnown(url, priority)
    \/ \E i \in Ids : LeaseElapses(i)

Spec == Init /\ [][Next]_vars

\* ----------------------------------- the queue and the calls that fill it

\* The queue with its URLs as strings: lines are given to cli.enqueue_urls,
\* db.enqueue_url is called, rows are claimed and marked, and the frontier
\* step of a claimed row upserts what frontier_candidates returned for it.
crew == <<raw_pages, extractions, lease_over, RUN, pool, pc, rows, fdone, frontier_count,
          counters, latencies_ms, samples, holding, fail_calls>>

MaxRows == 3

\* The pages of the first rows of the queue are the ones that can fail.
MaxFailingRows == 1

\* The lines the seed command is given,
SeedLines == {<<" ", "H", "t", "T", "p", ":", "/", "/", "X", " ">>, <<" ", " ">>}

\* the URLs enqueue_url is called with by another caller,
ImportUrls == {<<"h", "t", "t", "p", ":", "/", "/", "x", "/">>}

\* the links of a fetched page,
PageLinks ==
    {[href |-> <<"h", "t", "t", "p", ":", "/", "/", "x", "/", "x">>, text |-> <<"m", "a", "p">>],
     [href |-> <<"h", "t", "t", "p", ":", "/", "/", "/", "/", "/", "/", "x">>, text |-> <<>>]}

\* and the geo score of that page.
PageScores == {0, ScoreOne}

\* cli.enqueue_urls, one pass of its loop: clean = url.strip(), an empty line
\* is passed over, enqueue_url(clean, priority=priority, source="seed", depth=0).
CliEnqueue(line, priority) ==
    /\ strip(line) # <<>>
    /\ Len(url_queue) < MaxRows
    /\ url_queue' = enqueue_url(url_queue, strip(line), priority, 0, "seed", 0)
    /\ db_call' = [op |-> "enqueue_url", url |-> strip(line), priority |-> priority,
                   geo_score |-> 0, source |-> "seed", depth |-> 0,
                   returned |-> enqueue_url_inserted(url_queue, strip(line))]
    /\ UNCHANGED <<crew, canon, front, prio>>

\* db.enqueue_url called with any arguments.
EnqueueUrl(url, priority, geo_score, source, depth) ==
    /\ Len(url_queue) < MaxRows
    /\ url_queue' = enqueue_url(url_queue, url, priority, geo_score, source, depth)
    /\ db_call' = [op |-> "enqueue_url", url |-> url, priority |-> priority,
                   geo_score |-> geo_score, source |-> source, depth |-> depth,
                   returned |-> enqueue_url_inserted(url_queue, url)]
    /\ UNCHANGED <<crew, canon, front, prio>>

\* A worker's claim of one row, and the mark_* that ends its processing.
ClaimOne ==
    /\ \A i \in Ids : url_queue[i].status # "in_progress"
    /\ claim_pending_urls(url_queue, 1) # <<>>
    /\ url_queue' = sql_claim_update(url_queue, SeqToSet(claim_pending_urls(url_queue, 1)), "w1")
    /\ db_call' = [op |-> "claim_pending_urls"]
    /\ UNCHANGED <<crew, canon, front, prio>>

MarkDone(i) ==
    /\ url_queue[i].status = "in_progress"
    /\ url_queue' = mark_url_done(url_queue, i)
    /\ db_call' = [op |-> "mark_url_done"]
    /\ UNCHANGED <<crew, canon, front, prio>>

MarkFailed(i) ==
    /\ url_queue[i].status = "in_progress"
    /\ url_queue' = mark_url_failed(url_queue, i)
    /\ db_call' = [op |-> "mark_url_failed"]
    /\ UNCHANGED <<crew, canon, front, prio>>

\* The candidates of the page of row i, whose payload has this one link.
candidates_of_row(q, i, link, max_depth, page_geo_score) ==
    frontier_candidates(q[i].url,
                        [title |-> <<>>, description |-> <<>>, main_content |-> <<>>,
                         article_date |-> FALSE, links |-> <<link>>],
                        <<>>, q[i].depth, max_depth, Max(1, FrontierMaxLinks), page_geo_score)

Discover_keeps_depth(i, link, max_depth, page_geo_score) ==
    /\ url_queue[i].status = "in_progress"
    /\ \E cands \in {candidates_of_row(url_queue, i, link, max_depth, page_geo_score)} :
          \E k \in 1..Len(cands) :
              /\ Len(url_queue) < MaxRows \/ HasUrl(url_queue, cands[k].url)
              /\ url_queue' = upsert_discovered_url(url_queue, i, cands[k].url,
                                  cands[k].priority, cands[k].geo_score, "frontier",
                                  url_queue[i].depth)
              /\ db_call' = [op |-> "upsert_discovered_url", parent_url_id |-> i,
                             url |-> cands[k].url, priority |-> cands[k].priority,
                             geo_score |-> cands[k].geo_score, source |-> "frontier",
                             depth |-> url_queue[i].depth,
                             returned |-> sql_upsert_inserted(url_queue, cands[k].url)]
    /\ UNCHANGED <<crew, canon, front, prio>>

\* process_one of the claimed row i reaches _enqueue_frontier with
\* depth = row["depth"]: one pass of its loop, for a candidate the threshold
\* 0 admits, calls upsert_discovered_url(parent_url_id=url_id, url=cand.url,
\* priority=cand.priority, geo_score=cand.geo_score,
\* source=f"frontier:{cand.reason}", depth=current_depth + 1). Of the source
\* the queue keeps the part before the colon.
Discover(i, link, max_depth, page_geo_score) ==
    /\ url_queue[i].status = "in_progress"
    /\ \E cands \in {candidates_of_row(url_queue, i, link, max_depth, page_geo_score)} :
          \E k \in 1..Len(cands) :
              /\ Len(url_queue) < MaxRows \/ HasUrl(url_queue, cands[k].url)
              /\ url_queue' = upsert_discovered_url(url_queue, i, cands[k].url,
                                  cands[k].priority, cands[k].geo_score, "frontier",
                                  url_queue[i].depth + 1)
              /\ db_call' = [op |-> "upsert_discovered_url", parent_url_id |-> i,
                             url |-> cands[k].url, priority |-> cands[k].priority,
                             geo_score |-> cands[k].geo_score, source |-> "frontier",
                             depth |-> url_queue[i].depth + 1,
                             returned |-> sql_upsert_inserted(url_queue, cands[k].url)]
    /\ UNCHANGED <<crew, canon, front, prio>>

NextQueue ==
    \/ \E line \in SeedLines : CliEnqueue(line, 0)
    \/ \E url \in ImportUrls, out \in {-1, 1} :
          EnqueueUrl(url, 0, out * (BlendOne + 1), "import", out)
    \/ ClaimOne
    \/ \E i \in Ids : MarkDone(i)
    \/ \E i \in Ids \cap 1..MaxFailingRows : MarkFailed(i)
    \/ \E i \in Ids, link \in PageLinks, page_geo_score \in PageScores :
          Discover(i, link, FrontierMaxDepth + 1, page_geo_score)

SpecQueue == Init /\ [][NextQueue]_vars

\* ------------------------------------------ the priority of a candidate

\* The blended scores and the depths the priority is evaluated at: the ends
\* of [0, 1], scores on and next to a hundredth, and the depths up to
\* MaxPriorityDepth.
BlendedScores ==
    {0, 1, BlendOne \div 100, BlendOne \div 100 + 1, BlendOne \div 2, BlendOne - 1, BlendOne}

MaxPriorityDepth == 5

\* frontier_candidates, line 240: the priority of a candidate of this blended
\* score found at this depth; the evaluation before it is kept beside it.
PriorityOf(blended_score, current_depth) ==
    /\ prio' = (IF prio = <<>> THEN <<>> ELSE <<prio[Len(prio)]>>)
                   \o <<[blended_score |-> blended_score, current_depth |-> current_depth,
                         priority |-> priority_of(blended_score, current_depth)]>>
    /\ UNCHANGED <<fleet, canon, front, db_call>>

NextPriority ==
    \E blended_score \in BlendedScores, current_depth \in 0..MaxPriorityDepth :
        PriorityOf(blended_score, current_depth)

SpecPriority == Init /\ [][NextPriority]_vars

\* --------------------------------------------- a worker that keeps running

\* The steps of a worker that is not shut down and whose database calls
\* succeed: the claim, the stages of process_one with whatever the fetcher
\* and the extractor return, the mark_* calls and the metrics.
KeepsRunning(w) ==
    \/ LoopCheck(w)
    \/ ClaimReturns(w)
    \/ FlushEmpty(w)
    \/ ForEnds(w)
    \/ ProcessOneStarts(w)
    \/ FetchOk(w)
    \/ FetchFails(w)
    \/ InsertRawPageOk(w)
    \/ InsertExtractionOk(w)
    \/ FrontierUpsert(w)
    \/ FrontierReturns(w)
    \/ MarkDoneOk(w)
    \/ MarkFailedOk(w)
    \/ FlushRows(w)

\* The worker that keeps running, and the other workers of the fleet, which
\* may be shut down and whose calls may fail.
Runner == "w1"

NextQuiesce ==
    \/ KeepsRunning(Runner)
    \/ \E w \in Workers \ {Runner} : WorkerStep(w)
    \/ \E url \in Urls, priority \in Priorities : Enqueue(url, priority)

\* asyncio runs the coroutine of run_worker whenever its awaited call has
\* returned: a step of the running worker that stays possible is taken.
SpecQuiesce == Init /\ [][NextQuiesce]_vars /\ WF_vars(KeepsRunning(Runner))

\* ------------------------------------------------------------ properties

InProgressOf(w) ==
    {i \in Ids : url_queue[i].status = "in_progress" /\ url_queue[i].claimed_by = {w}}

Processing == {"fetch", "insert_raw_page", "insert_extraction", "frontier",
               "mark_done", "mark_failed"}

\* C1: a row that a worker's claim returned is returned by no other worker's
\* claim until a mark_url_done or mark_url_failed has been applied to it: the
\* sets of rows the workers hold are pairwise disjoint.
ClaimExclusivity ==
    \A v, w \in Workers : v # w => holding[v] \cap holding[w] = {}

\* Both workers hold a claimed row at the same time.
ClaimExclusivityWitness ==
    /\ pc["w1"] \in Processing
    /\ pc["w2"] \in Processing
    /\ holding["w1"] # {}
    /\ holding["w2"] # {}

LifecycleMoves ==
    {<<"pending", "in_progress">>, <<"in_progress", "done">>,
     <<"in_progress", "pending">>, <<"in_progress", "failed">>}

\* C2: in every step of the workers and the seed tool a row's status stays as
\* it is or moves along pending -> in_progress, in_progress -> done,
\* in_progress -> pending or in_progress -> failed; done and failed are never
\* left, not by an upsert or an enqueue of the row's URL either.
RowLifecycle ==
    [][\A i \in 1..Len(url_queue) :
          url_queue'[i].status # url_queue[i].status =>
              <<url_queue[i].status, url_queue'[i].status>> \in LifecycleMoves]_vars

\* The frontier has upserted the URL of a row that is done or failed, and the
\* row is still done or failed.
RowLifecycleWitness ==
    \E w \in Workers, i \in Ids :
        /\ pc[w] = "frontier"
        /\ url_queue[i].url \in fdone[w]
        /\ url_queue[i].status \in {"done", "failed"}

\* C3: a row is failed exactly when mark_url_failed has been applied to it at
\* least max_retries times, and each application before the max_retries-th
\* leaves the row pending.
RetryBound ==
    /\ [](\A i \in Ids :
             url_queue[i].status = "failed" <=> fail_calls[i] >= url_queue[i].max_retries)
    /\ [][\A i \in 1..Len(url_queue) :
             fail_calls'[i] # fail_calls[i] =>
                 url_queue'[i].status =
                     IF fail_calls'[i] < url_queue[i].max_retries
                     THEN "pending" ELSE "failed"]_vars

\* A row has failed after max_retries applications of mark_url_failed.
RetryBoundWitness ==
    \E i \in Ids :
        /\ url_queue[i].status = "failed"
        /\ fail_calls[i] = url_queue[i].max_retries

\* C4: a row that is in_progress has claimed_by and claimed_at set; a row that
\* is pending, done or failed has no claimed_by.
ClaimFieldInvariant ==
    \A i \in Ids :
        /\ url_queue[i].status = "in_progress" =>
               url_queue[i].claimed_by # NULL /\ url_queue[i].claimed_at # NULL
        /\ url_queue[i].status \in {"pending", "done", "failed"} =>
               url_queue[i].claimed_by = NULL

\* One row is claimed while another one has been handed back by mark_url_failed.
ClaimFieldInvariantWitness ==
    \E i, j \in Ids :
        /\ url_queue[i].status = "in_progress"
        /\ url_queue[j].status = "pending"
        /\ url_queue[j].retries > 0

\* C5: retries never exceeds max_retries, on any row.
RetriesBounded ==
    \A i \in Ids : url_queue[i].retries <= url_queue[i].max_retries

\* A row has used up its retries and the worker is back at the top of its loop.
RetriesBoundedWitness ==
    \E i \in Ids, w \in Workers :
        /\ url_queue[i].retries = url_queue[i].max_retries
        /\ pc[w] = "claiming"

\* C6: once the lease of a row has run out (its worker is gone without a
\* mark_*), a claim of another worker that has room for it returns it.
ReclaimAfterLease ==
    [][\A w \in Workers :
          (/\ rows[w] = <<>>
           /\ rows'[w] # <<>>
           /\ Len(rows'[w]) < get_batch_size(w))
          => lease_over \subseteq SeqToSet(rows'[w])]_vars

\* C7: a claim returns at most batch_size rows, all pending before it, in
\* (priority DESC, id ASC) order, each of them before every pending row it
\* leaves behind, and it leaves pending rows behind only when the batch is full.
ClaimOrdering ==
    [][\A w \in Workers :
          (rows[w] = <<>> /\ rows'[w] # <<>>) =>
              LET got == rows'[w]
                  left == PendingIds(url_queue) \ SeqToSet(got)
              IN /\ Len(got) <= get_batch_size(w)
                 /\ \A k \in 1..Len(got) : url_queue[got[k]].status = "pending"
                 /\ \A k, l \in 1..Len(got) :
                       k < l => ClaimBefore(url_queue, got[k], got[l])
                 /\ \A k \in 1..Len(got), j \in left :
                       ClaimBefore(url_queue, got[k], j)
                 /\ left # {} => Len(got) = get_batch_size(w)]_vars

\* A claim with a full batch took the row of higher priority and left an older
\* pending row of lower priority behind.
ClaimOrderingWitness ==
    \E w \in Workers, j \in Ids :
        /\ pc[w] = "for"
        /\ Len(rows[w]) = get_batch_size(w)
        /\ url_queue[j].status = "pending"
        /\ j < Row(w)
        /\ url_queue[j].priority < url_queue[Row(w)].priority

\* C8: no error raised while a single row is processed takes run_worker out
\* of its loop: a worker is outside the loop only when its RUN flag is false.
LoopLeftOnlyByShutdown ==
    \A w \in Workers :
        pc[w] \in {"final_flush", "stopped", "crashed"} => ~RUN[w]

\* C9: a worker that is idle, claiming, sleeping (back at the top of its loop),
\* shutting down or stopped has no row in_progress under its name.
InProgressOnlyWhileProcessing ==
    \A w \in Workers :
        pc[w] \in {"loop", "claiming", "flush_empty", "final_flush", "stopped"}
            => InProgressOf(w) = {}

\* C10: a worker whose RUN flag was set to false ends by the final metrics
\* flush and close_pool: once it runs no more it is stopped with its pool closed.
ShutdownEndsCleanly ==
    \A w \in Workers :
        (~RUN[w] /\ pc[w] \in {"stopped", "crashed"}) => (pc[w] = "stopped" /\ ~pool[w])

\* C11: a stage of process_one (fetch, insert_raw_page, extractor,
\* insert_extraction) either hands over to the next stage or fails into
\* mark_url_failed; a failure adds exactly one to the failed counter and leaves
\* processed, the latency list, the batch and the queue alone; after the
\* mark_url_failed call no later stage runs for the row: process_one is over
\* (or the call raised), the counters are as they were, and a call that
\* returned has counted one more failure on the row and released it.
StageFailureHandling ==
    [][\A w \in Workers :
          /\ pc[w] = "fetch" => pc'[w] \in {"fetch", "insert_raw_page", "mark_failed"}
          /\ pc[w] = "insert_raw_page" =>
                 pc'[w] \in {"insert_raw_page", "insert_extraction", "mark_failed"}
          /\ pc[w] = "insert_extraction" =>
                 pc'[w] \in {"insert_extraction", "frontier", "mark_failed"}
          /\ (pc[w] # "mark_failed" /\ pc'[w] = "mark_failed") =>
                 /\ counters'[w].failed = counters[w].failed + 1
                 /\ counters'[w].processed = counters[w].processed
                 /\ latencies_ms'[w] = latencies_ms[w]
                 /\ rows'[w] = rows[w]
                 /\ url_queue' = url_queue
          /\ (pc[w] = "mark_failed" /\ pc'[w] # "mark_failed") =>
                 /\ pc'[w] \in {"for", "flush_rows", "crashed"}
                 /\ counters'[w] = counters[w]
                 /\ latencies_ms'[w] = latencies_ms[w]
                 /\ extractions' = extractions
                 /\ Len(url_queue') = Len(url_queue)
                 /\ pc'[w] # "crashed" =>
                        /\ fail_calls'[Row(w)] = fail_calls[Row(w)] + 1
                        /\ url_queue'[Row(w)].retries = url_queue[Row(w)].retries + 1
                        /\ url_queue'[Row(w)].status \in {"pending", "failed"}]_vars

\* A row whose raw page was stored failed in a later stage: its worker has
\* counted one failure and nothing processed, and the row has one retry.
StageFailureHandlingWitness ==
    \E w \in Workers, i \in Ids :
        /\ counters[w] = [processed |-> 0, failed |-> 1]
        /\ latencies_ms[w] = 0
        /\ pc[w] = "for"
        /\ i \in raw_pages
        /\ i \notin extractions
        /\ url_queue[i].retries = 1
        /\ url_queue[i].status = "pending"

\* C12: whether _enqueue_frontier returns or raises, process_one goes on to
\* mark_url_done with its counters and the queue (the children upserted so
\* far) as they are; the mark_url_done call counts no failure and, when it
\* returns, the row is done, processed is one more and no other row changed.
FrontierBestEffort ==
    [][\A w \in Workers :
          /\ (pc[w] = "frontier" /\ pc'[w] # "frontier") =>
                 /\ pc'[w] = "mark_done"
                 /\ counters'[w] = counters[w]
                 /\ url_queue' = url_queue
          /\ (pc[w] = "mark_done" /\ pc'[w] # "mark_done") =>
                 /\ pc'[w] \in {"for", "flush_rows", "crashed"}
                 /\ counters'[w].failed = counters[w].failed
                 /\ fail_calls' = fail_calls
                 /\ Len(url_queue') = Len(url_queue)
                 /\ pc'[w] # "crashed" =>
                        /\ counters'[w].processed = counters[w].processed + 1
                        /\ url_queue'[Row(w)].status = "done"
                        /\ \A i \in Ids \ {Row(w)} : url_queue'[i] = url_queue[i]]_vars

\* _enqueue_frontier raised after it had upserted a new child of the row: the
\* child is in the queue and process_one stands before mark_url_done.
FrontierBestEffortWitness ==
    \E w \in Workers, i \in Ids :
        /\ pc[w] = "mark_done"
        /\ frontier_count[w] = 0
        /\ fdone[w] # {}
        /\ url_queue[i].parent_url_id = {Row(w)}
        /\ url_queue[i].url \in fdone[w]

\* --------------------------------------------------- canonicalize_url claims

\* C19: canonicalize_url is idempotent: called on its own result it returns
\* that result again, for every URL string.
CanonicalIdempotence ==
    Len(cu_out) = 2 => cu_out[2] = cu_out[1]

\* C20: canonicalize_url returns the empty string exactly when the scheme of
\* the URL is not http or https; otherwise the result has the scheme of the
\* URL, its host in lower case, its path ("/" for the empty path), its query
\* and no fragment.
CanonicalForm ==
    Len(cu_out) >= 1 =>
        LET given == urlsplit(strip(cu_url))
            result == urlsplit(cu_out[1])
        IN /\ cu_out[1] = <<>> <=> given.scheme \notin {http, https}
           /\ cu_out[1] # <<>> =>
                /\ result.scheme = given.scheme
                /\ result.netloc = lower(given.netloc)
                /\ result.path = (IF given.path = <<>> THEN <<"/">> ELSE given.path)
                /\ result.query = given.query
                /\ result.fragment = <<>>

\* ------------------------------------------------------- frontier claims

\* C13: whenever current_depth >= max_depth, frontier_candidates returns the
\* empty list, whatever the payload, markup, max_links and page geo-score,
\* and the page causes no upsert_discovered_url call.
DepthGating ==
    (ef_pc \in {"loop", "returned", "raised"}
        /\ ef_args.current_depth >= ef_args.max_depth)
        => candidates = <<>> /\ upserted = <<>>

DepthGatingWitness ==
    /\ ef_pc = "returned"
    /\ ef_args.current_depth = ef_args.max_depth
    /\ Len(ef_args.payload.links) = MaxPayloadLinks
    /\ ef_args.html # <<>>
    /\ ef_args.max_links > 1
    /\ upserted = <<>>

\* The candidate's blended score is at least min_geo_score.
AtThreshold(cand) == cand.geo_score >= ef_args.min_geo_score * (BlendOne \div 100)

DedupByCanonicalUrl ==
    ef_pc = "loop" =>
        \A i, j \in 1..Len(candidates) :
            i < j => canonicalize_url(candidates[i].url) # canonicalize_url(candidates[j].url)

\* The candidates frontier_candidates scored for the page before it sorted
\* and truncated the list.
Scored ==
    scored_links(ef_args.parent_url, ef_args.payload, ef_args.html, ef_args.current_depth,
                 ef_args.max_links, aggregate_score(geo_signals))

\* C16: below the depth gate frontier_candidates returns at most max_links
\* candidates; a candidate returned before another has a blended score and a
\* priority at least as high; no candidate left out by the truncation has a
\* higher blended score than a returned one.
RankingAndTruncation ==
    (ef_pc = "loop" /\ cand_i = 1 /\ ef_args.current_depth < ef_args.max_depth) =>
        /\ Len(candidates) <= ef_args.max_links
        /\ \A i, j \in 1..Len(candidates) :
              i < j => /\ candidates[i].geo_score >= candidates[j].geo_score
                       /\ candidates[i].priority >= candidates[j].priority
        /\ \E out \in {Scored} :
              /\ \A i \in 1..Len(candidates) : \E k \in 1..Len(out) : out[k] = candidates[i]
              /\ Len(candidates) = IF Len(out) < ef_args.max_links THEN Len(out)
                                   ELSE ef_args.max_links
              /\ \A k \in 1..Len(out) :
                    (\A i \in 1..Len(candidates) : candidates[i].url # out[k].url)
                        => \A i \in 1..Len(candidates) :
                              out[k].geo_score <= candidates[i].geo_score

RankingAndTruncationWitness ==
    /\ ef_pc = "loop"
    /\ cand_i = 1
    /\ Len(candidates) = 1
    /\ \E out \in {Scored} :
          /\ Len(out) = 2
          /\ out[1].geo_score < out[2].geo_score
          /\ candidates[1] = out[2]

\* What frontier_candidates returns for the page when only the page
\* geo-score is another one.
CandidatesWith(page_geo_score) ==
    frontier_candidates(ef_args.parent_url, ef_args.payload, ef_args.html,
                        ef_args.current_depth, ef_args.max_depth, ef_args.max_links,
                        page_geo_score)

\* C17: with the parent URL, payload, markup, depth and limits fixed, a page
\* geo-score at least as high gives every candidate URL a blended score and
\* a priority at least as high.
FrontierMonotonicity ==
    (ef_pc = "loop" /\ cand_i = 1) =>
        \A g2 \in {ScoreOne \div 2, ScoreOne} :
            aggregate_score(geo_signals) <= g2 =>
                \E other \in {CandidatesWith(g2)} :
                    \A i \in 1..Len(candidates), j \in 1..Len(other) :
                        candidates[i].url = other[j].url =>
                            /\ candidates[i].geo_score <= other[j].geo_score
                            /\ candidates[i].priority <= other[j].priority

FrontierMonotonicityWitness ==
    /\ ef_pc = "loop"
    /\ cand_i = 1
    /\ Len(candidates) = 2
    /\ aggregate_score(geo_signals) > 0
    /\ aggregate_score(geo_signals) < ScoreOne \div 2
    /\ \E other \in {CandidatesWith(ScoreOne \div 2)} :
          /\ Len(other) = 2
          /\ \A i \in 1..2 : /\ other[i].url = candidates[i].url
                             /\ other[i].geo_score > candidates[i].geo_score
                             /\ other[i].priority > candidates[i].priority

\* C18: the four sub-signals and the aggregate score of compute_geo_signals
\* lie in [0,1]; so does the score of score_frontier_candidate for the links
\* of the page, and the blended score of every candidate and of every
\* upsert_discovered_url call.
ScoreRange ==
    /\ ef_pc \in {"call", "loop", "returned", "raised"} =>
          /\ \A signal \in {geo_signals.geo_term_density, geo_signals.freshness_signal,
                            geo_signals.structured_data_signal,
                            geo_signals.link_quality_signal, aggregate_score(geo_signals)} :
                0 <= signal /\ signal <= ScoreOne
    /\ ef_pc = "call" =>
          \A k \in 1..Len(ef_args.payload.links) :
              \E scored \in {score_frontier_candidate(ef_args.parent_url,
                                                      ef_args.payload.links[k].href,
                                                      ef_args.payload.links[k].text)} :
                  0 <= scored.score /\ scored.score <= ScoreOne
    /\ \A k \in 1..Len(candidates) :
          0 <= candidates[k].geo_score /\ candidates[k].geo_score <= BlendOne
    /\ \A k \in 1..Len(upserted) :
          0 <= upserted[k].geo_score /\ upserted[k].geo_score <= BlendOne

ScoreRangeWitness ==
    /\ ef_pc = "returned"
    /\ geo_signals.geo_term_density = ScoreOne
    /\ geo_signals.link_quality_signal = ScoreOne
    /\ geo_signals.freshness_signal = 0
    /\ aggregate_score(geo_signals) < ScoreOne
    /\ Len(upserted) = 2
    /\ upserted[2].geo_score > 0
    /\ upserted[1].geo_score < BlendOne

\* ------------------------------------------------ fleet claims, continued

\* C24: a worker reaches mark_url_done for a row only through the stages of
\* one process_one call: the fetch returned markup, then insert_raw_page
\* succeeded, then insert_extraction succeeded; a row becomes done only by
\* that call. Hence every done row has a raw page and an extraction, and
\* every extraction has a raw page.
CompletionOrdering ==
    [][/\ \A w \in Workers :
            /\ (pc'[w] = "insert_raw_page" /\ pc[w] # "insert_raw_page") => pc[w] = "fetch"
            /\ (pc'[w] = "insert_extraction" /\ pc[w] # "insert_extraction") =>
                  /\ pc[w] = "insert_raw_page"
                  /\ rows'[w] = rows[w]
                  /\ Row(w) \in raw_pages'
            /\ (pc'[w] = "frontier" /\ pc[w] # "frontier") =>
                  /\ pc[w] = "insert_extraction"
                  /\ rows'[w] = rows[w]
                  /\ Row(w) \in extractions'
            /\ (pc'[w] = "mark_done" /\ pc[w] # "mark_done") =>
                  /\ pc[w] = "frontier"
                  /\ rows'[w] = rows[w]
       /\ \A i \in Ids :
            (url_queue'[i].status = "done" /\ url_queue[i].status # "done") =>
                \E w \in Workers : pc[w] = "mark_done" /\ Row(w) = i
       /\ \A i \in 1..Len(url_queue') :
            url_queue'[i].status = "done" => i \in raw_pages' /\ i \in extractions'
       /\ extractions' \subseteq raw_pages']_vars

CompletionOrderingWitness ==
    \E i, j \in Ids :
        /\ url_queue[i].status = "done"
        /\ i \in raw_pages \cap extractions
        /\ j \in raw_pages \ extractions
        /\ url_queue[j].status = "pending"
        /\ url_queue[j].retries = 1

\* C26: a worker is about to emit a periodic metrics sample, in the row loop
\* or on an empty poll, only for a processed count it has not sampled yet:
\* failed rows and empty polls bring no further sample for the same count.
OneSamplePerCount ==
    \A w \in Workers :
        pc[w] \in {"flush_rows", "flush_empty"} => counters[w].processed \notin samples[w]

\* ------------------------------------------------------- queue claims

\* C21: every row of the queue, whether the seed command or the frontier
\* inserted it, holds a URL that canonicalize_url maps to itself, and no two
\* rows hold URLs with the same canonical form.
QueueUrlsCanonical ==
    /\ \A i \in Ids : canonicalize_url(url_queue[i].url) = url_queue[i].url
    /\ \A i, j \in Ids :
          i # j => canonicalize_url(url_queue[i].url) # canonicalize_url(url_queue[j].url)

\* A step that is a call of op.
Called(op) ==
    /\ db_call' # <<>>
    /\ db_call'.op = op
    /\ <<url_queue, db_call>>' # <<url_queue, db_call>>

\* C22: an enqueue_url call for a URL the queue does not hold appends one
\* pending row with retries 0, no claim fields, the geo score clamped to
\* [0, 1] and the depth clamped to >= 0, leaves the other rows alone and
\* returns true; a call for a URL the queue holds, in whatever status,
\* returns false and leaves the queue as it was.
EnqueueInsertIfAbsent ==
    [][Called("enqueue_url") =>
          IF HasUrl(url_queue, db_call'.url)
          THEN /\ ~db_call'.returned
               /\ url_queue' = url_queue
          ELSE /\ db_call'.returned
               /\ Len(url_queue') = Len(url_queue) + 1
               /\ SubSeq(url_queue', 1, Len(url_queue)) = url_queue
               /\ \E row \in {url_queue'[Len(url_queue')]} :
                     /\ row.url = db_call'.url
                     /\ row.priority = db_call'.priority
                     /\ row.source = db_call'.source
                     /\ row.status = "pending"
                     /\ row.retries = 0
                     /\ row.claimed_by = NULL
                     /\ row.claimed_at = NULL
                     /\ row.parent_url_id = NULL
                     /\ row.geo_score >= 0 /\ row.geo_score <= BlendOne
                     /\ db_call'.geo_score \in 0..BlendOne => row.geo_score = db_call'.geo_score
                     /\ db_call'.geo_score < 0 => row.geo_score = 0
                     /\ db_call'.geo_score > BlendOne => row.geo_score = BlendOne
                     /\ row.depth >= 0
                     /\ db_call'.depth >= 0 => row.depth = db_call'.depth
                     /\ db_call'.depth < 0 => row.depth = 0]_vars

EnqueueInsertIfAbsentWitness ==
    /\ db_call # <<>>
    /\ db_call.op = "enqueue_url"
    /\ ~db_call.returned
    /\ db_call.geo_score > BlendOne
    /\ \E i \in Ids :
          /\ url_queue[i].url = db_call.url
          /\ url_queue[i].status = "done"
          /\ url_queue[i].geo_score = BlendOne
    /\ \E i \in Ids : url_queue[i].status = "failed"

\* C23: an upsert_discovered_url call for a URL the queue holds lowers
\* neither the priority nor the geo score of its row (each becomes the
\* greater of the old and the new value), leaves its parent_url_id, its
\* other columns and every other row alone and returns false; a call for a
\* URL the queue does not hold appends a row with the given parent and
\* returns true.
DiscoveryNeverDemotes ==
    [][Called("upsert_discovered_url") =>
          IF HasUrl(url_queue, db_call'.url)
          THEN /\ ~db_call'.returned
               /\ Len(url_queue') = Len(url_queue)
               /\ \A i \in Ids :
                     IF url_queue[i].url = db_call'.url
                     THEN /\ url_queue'[i].priority >= url_queue[i].priority
                          /\ url_queue'[i].priority = Max(url_queue[i].priority, db_call'.priority)
                          /\ url_queue'[i].geo_score >= url_queue[i].geo_score
                          /\ url_queue'[i].geo_score = Max(url_queue[i].geo_score, db_call'.geo_score)
                          /\ url_queue'[i].parent_url_id = url_queue[i].parent_url_id
                          /\ url_queue'[i] = [url_queue[i] EXCEPT !.priority = url_queue'[i].priority,
                                                                  !.geo_score = url_queue'[i].geo_score]
                     ELSE url_queue'[i] = url_queue[i]
          ELSE /\ db_call'.returned
               /\ Len(url_queue') = Len(url_queue) + 1
               /\ SubSeq(url_queue', 1, Len(url_queue)) = url_queue
               /\ url_queue'[Len(url_queue')].url = db_call'.url
               /\ url_queue'[Len(url_queue')].parent_url_id = {db_call'.parent_url_id}]_vars

DiscoveryNeverDemotesWitness ==
    /\ db_call # <<>>
    /\ db_call.op = "upsert_discovered_url"
    /\ ~db_call.returned
    /\ \E i \in Ids :
          /\ url_queue[i].url = db_call.url
          /\ url_queue[i].status = "pending"
          /\ url_queue[i].priority > db_call.priority
          /\ url_queue[i].geo_score > db_call.geo_score
          /\ url_queue[i].parent_url_id # NULL
          /\ url_queue[i].parent_url_id # {db_call.parent_url_id}

\* C25: every row has a depth >= 0; a seed row has depth 0 and no parent; a
\* row the frontier inserted has the row that was being processed as its
\* parent and that row's depth plus one as its depth.
DepthPropagation ==
    \A i \in Ids :
        /\ url_queue[i].depth >= 0
        /\ url_queue[i].source = "seed" =>
              url_queue[i].depth = 0 /\ url_queue[i].parent_url_id = NULL
        /\ url_queue[i].source = "frontier" =>
              \E p \in 1..(i - 1) :
                  /\ url_queue[i].parent_url_id = {p}
                  /\ url_queue[i].depth = url_queue[p].depth + 1

DepthPropagationWitness ==
    \E i, p \in Ids :
        /\ url_queue[i].source = "frontier"
        /\ url_queue[i].parent_url_id = {p}
        /\ url_queue[i].depth = 2
        /\ url_queue[p].source = "frontier"
        /\ url_queue[1].source = "seed"

\* ------------------------------------- canonicalize_url claims, continued

\* C27: the canonical form of an http or https URL has no user-info: its
\* authority is the host[:port] of the URL, the part of the URL's authority
\* after the last "@", in lower case, so that URLs which differ in their
\* user-info only have the same canonical form.
UserInfoDropped ==
    (Len(cu_out) >= 1 /\ cu_out[1] # <<>>) =>
        LET given == urlsplit(strip(cu_url))
            result == urlsplit(cu_out[1])
        IN /\ find(result.netloc, "@", 1) = 0
           /\ result.netloc = lower(From(given.netloc, rfind(given.netloc, "@") + 1))

\* ------------------------------------------------ frontier claims, continued

\* The list of links the harvest of frontier_candidates ends with when the
\* markup is scanned exactly if the payload gave fewer than max_links / 2
\* usable links: the payload links first, the markup links after them.
HarvestByHalf(payload, html, parent_url, max_links) ==
    the({IF 2 * Len(links) < max_links
         THEN links \o extract_links(html, parent_url, max_links)
         ELSE links :
            links \in {payload_links(payload.links)}})

\* C28: below the depth gate, frontier_candidates returns the candidates of
\* the payload links followed by the markup links if and only if the usable
\* payload links are fewer than max_links / 2, for every max_links: the
\* links of that harvest, deduplicated, scored, sorted and truncated.
HarvestSupplement ==
    (ef_pc \in {"loop", "returned", "raised"} /\ ef_args.current_depth < ef_args.max_depth) =>
        candidates =
            the({slice(sort([k \in 1..Len(dedup) |->
                                candidate_of(ef_args.parent_url, dedup[k], ef_args.current_depth,
                                             aggregate_score(geo_signals))]),
                       ef_args.max_links) :
                    dedup \in {dedup_links(HarvestByHalf(ef_args.payload, ef_args.html,
                                                         ef_args.parent_url, ef_args.max_links),
                                           <<>>)}})

\* ------------------------------------------------ signal claims

\* C29: the link-quality signal of a page is the fraction of links with a geo
\* term in their href or text among the first min(len(links), 15) links of
\* the payload, 0 for a page without links: the links after the 15th have no
\* part in it.
LinkQualityOfFirstLinks ==
    geo_signals # <<>> =>
        LET links == ef_args.payload.links
            count == IF Len(links) > 15 THEN 15 ELSE Len(links)
            strong == Cardinality(strong_links(SubSeq(links, 1, count)))
        IN geo_signals.link_quality_signal =
               (IF count = 0 THEN 0 ELSE (strong * ScoreOne) \div count)

\* ------------------------------------------------ priority claims

\* The least whole number of hundredths that is not below the blended score.
CeilHundredths(blended_score) ==
    CHOOSE n \in 0..100 :
        /\ n * (BlendOne \div 100) >= blended_score
        /\ n = 0 \/ (n - 1) * (BlendOne \div 100) < blended_score

\* 20, 14, 8 and 2 at the depths 0 to 3, 0 from depth 4 on.
DepthBonus(current_depth) ==
    CASE current_depth = 0 -> 20
      [] current_depth = 1 -> 14
      [] current_depth = 2 -> 8
      [] current_depth = 3 -> 2
      [] OTHER -> 0

\* C30: the priority of a candidate is ceil(100 * blended) plus the bonus of
\* its depth, max(0, 20 - 6 * current_depth), and lies in [0, 120]; of two
\* evaluations at one depth the one with the greater blended score has no
\* smaller priority, and of two with one blended score the deeper one has no
\* greater priority.
PriorityFormula ==
    /\ \A k \in 1..Len(prio) :
          /\ prio[k].priority =
                 CeilHundredths(prio[k].blended_score) + DepthBonus(prio[k].current_depth)
          /\ prio[k].priority >= 0
          /\ prio[k].priority <= 120
    /\ Len(prio) = 2 =>
          /\ (prio[1].current_depth = prio[2].current_depth
                 /\ prio[1].blended_score <= prio[2].blended_score) =>
                prio[1].priority <= prio[2].priority
          /\ (prio[1].blended_score = prio[2].blended_score
                 /\ prio[1].current_depth <= prio[2].current_depth) =>
                prio[1].priority >= prio[2].priority

PriorityFormulaWitness ==
    /\ Len(prio) = 2
    /\ prio[1].blended_score = BlendOne \div 100 + 1
    /\ prio[2].blended_score = BlendOne \div 100 + 1
    /\ prio[1].current_depth = 3
    /\ prio[2].current_depth = 4
    /\ prio[1].priority = 4
    /\ prio[2].priority = 2

\* The geo terms of the dictionary the text blob of the page holds, in
\* whatever case.
BlobTerms ==
    {term \in GEO_TERMS :
        contains(lower(ef_args.parent_url \o <<"\n">> \o ef_args.payload.title \o <<"\n">>
                           \o ef_args.payload.description \o <<"\n">>
                           \o prefix(ef_args.payload.main_content, 5000)),
                 term)}

\* C31: a page whose text blob (URL, title, description and the first 5000
\* characters of the main content) holds three or more distinct geo terms
\* has an aggregate score above 0.35, whatever its freshness, structured-data
\* and link-quality signals are.
GeoTextDetected ==
    (geo_signals # <<>> /\ Cardinality(BlobTerms) >= 3) =>
        100 * aggregate_score(geo_signals) > 35 * ScoreOne

GeoTextDetectedWitness ==
    /\ geo_signals # <<>>
    /\ Cardinality(BlobTerms) = 3
    /\ geo_signals.freshness_signal = 0
    /\ geo_signals.structured_data_signal = 0
    /\ geo_signals.link_quality_signal = 0
    /\ 100 * aggregate_score(geo_signals) > 35 * ScoreOne
    /\ 100 * aggregate_score(geo_signals) < 40 * ScoreOne

\* ---------------------------------------------- queue claims, continued

Marking == {"mark_done", "mark_failed"}

\* C33: a process_one call whose database calls succeed ends with one call of
\* one of mark_url_done and mark_url_failed, the last thing it does with the
\* row: the worker never goes from one to the other, no mark_* has touched
\* the row since its claim, and the row is in_progress and claimed by that
\* worker until the call; over the whole process_one call one of the
\* counters processed and failed goes up, by one (failed on the way to
\* mark_url_failed, processed with mark_url_done), and a row leaves
\* in_progress only by the mark_* call of the worker that claimed it.
OneCompletionPerClaim ==
    [][/\ \A w \in Workers :
            /\ (pc[w] \in Processing /\ pc'[w] \notin Processing \cup {"crashed"}) =>
                  /\ pc[w] \in Marking
                  /\ Row(w) \in holding[w]
                  /\ \A v \in Workers : Row(w) \notin holding'[v]
                  /\ url_queue[Row(w)].status = "in_progress"
                  /\ url_queue[Row(w)].claimed_by = {w}
                  /\ pc[w] = "mark_done" =>
                        /\ url_queue' = mark_url_done(url_queue, Row(w))
                        /\ counters'[w] = [counters[w] EXCEPT !.processed = @ + 1]
                  /\ pc[w] = "mark_failed" =>
                        /\ url_queue' = mark_url_failed(url_queue, Row(w))
                        /\ counters'[w] = counters[w]
            /\ (pc[w] \in Marking /\ pc'[w] \in Marking) => pc'[w] = pc[w]
            /\ (pc[w] \in Processing \ Marking /\ pc'[w] \in Processing) =>
                  /\ url_queue'[Row(w)].status = "in_progress"
                  /\ url_queue'[Row(w)].claimed_by = {w}
                  /\ Row(w) \in holding'[w]
                  /\ counters'[w] =
                        IF pc'[w] = "mark_failed"
                        THEN [counters[w] EXCEPT !.failed = @ + 1]
                        ELSE counters[w]
            /\ (pc[w] \notin Processing /\ pc'[w] \in Processing) =>
                  /\ pc'[w] = "fetch"
                  /\ counters'[w] = counters[w]
                  /\ url_queue[Row(w)].status = "in_progress"
                  /\ url_queue[Row(w)].claimed_by = {w}
       /\ \A i \in Ids :
            (url_queue[i].status = "in_progress" /\ url_queue'[i].status # "in_progress") =>
                \E w \in Workers :
                    /\ pc[w] \in Marking
                    /\ Row(w) = i
                    /\ url_queue[i].claimed_by = {w}]_vars

\* The worker with the batch of two has ended two process_one calls, one
\* with each mark_*, and is in a third for the row that failed before, while
\* the other worker has done nothing.
OneCompletionPerClaimWitness ==
    \E w \in Workers, i, j \in Ids :
        /\ counters[w] = [processed |-> 1, failed |-> 1]
        /\ \A v \in Workers \ {w} : counters[v] = [processed |-> 0, failed |-> 0]
        /\ url_queue[i].status = "done"
        /\ fail_calls[i] = 0
        /\ fail_calls[j] = 1
        /\ url_queue[j].status = "in_progress"
        /\ url_queue[j].claimed_by = {w}
        /\ pc[w] = "insert_extraction"

\* C34: when one worker keeps running (its claim and the steps of its
\* process_one calls are taken whenever they stay possible, it is not shut
\* down and its database calls succeed), the queue never has more rows than
\* there are URLs and from some point on every row is done or failed.
CrawlQuiescence ==
    /\ [](Len(url_queue) <= Cardinality(Urls))
    /\ <>[](\A i \in Ids : url_queue[i].status \in {"done", "failed"})

====
